---- MODULE Spec2Model ----
(***************************************************************************)
(* Verification model of the ArkeyezDoc backend (src/backend):             *)
(*   - ModelManager lifecycle and prediction        (models.py)            *)
(*   - OCRNLPPipeline text and keyword extraction   (ocr_nlp.py)           *)
(*   - lifespan startup polling                     (main.py)              *)
(*   - ConnectionManager registry and broadcast     (main.py)              *)
(*   - websocket_classify streaming protocol        (main.py)              *)
(*   - classify_multiple_documents, insert_document (main.py)              *)
(*   - analyze_ocr_for_class / fusion_cnn_ocr       (main.py)              *)
(*   - ERPNextConnector.create_ai_document          (erpnext_connector.py) *)
(* The specifications share the variables:                                 *)
(*   Spec           streaming handlers of the connections                  *)
(*   SpecBroadcast  registry operations and ConnectionManager.broadcast    *)
(*   SpecLifecycle  module import, lifespan startup, ModelManager calls    *)
(*   SpecFusion     the pure fusion functions applied to bounded inputs    *)
(*   SpecCounter    streaming and batch requests on the prediction counter *)
(*   SpecOcr        streaming requests, every outcome of the OCR engine    *)
(*   SpecKeywords   extract_keywords applied to bounded texts              *)
(*   SpecInsert     insert_document against the ERPNext sink               *)
(*   SpecFair       streaming handlers whose tasks keep being scheduled    *)
(***************************************************************************)
EXTENDS Integers, Sequences, FiniteSets, TLC

VARIABLES
    mm,                 \* the ModelManager object (models.py)
    ocr_nlp,            \* the OCRNLPPipeline object (ocr_nlp.py)
    lifespanPc,         \* position of the lifespan startup coroutine
    waited,             \* lifespan: seconds waited so far
    lastCall,           \* the last call made on the ModelManager and what it gave its caller
    active_connections, \* ConnectionManager.active_connections (a list)
    wsPc,               \* per connection: position of its websocket_classify task
    clientOpen,         \* per connection: the peer is still connected
    image,              \* per connection: image of the classify message in progress
    job,                \* per connection: locals of the pipeline in progress
    sent,               \* per connection: events its handler emitted for the current request
    inbox,              \* per connection: events the peer received for the current request
    sendResult,         \* per connection: what its last send_personal_message call gave the caller
    outcomes,           \* per connection: each received frame and how its handling ended
    http,               \* the classify-multi request in progress, and the requests so far
    bc,                 \* the broadcast coroutine in progress
    erp,                \* the ERPNext connector, the sink behind it, the local database
                        \* and the answers given to the insert requests
    fin,                \* arguments of the function called (fusion_cnn_ocr, extract_keywords)
    fout                \* the value it returned (for fusion_cnn_ocr, with its local ocr_analysis)

vars == <<mm, ocr_nlp, lifespanPc, waited, lastCall, active_connections, wsPc,
          clientOpen, image, job, sent, inbox, sendResult, outcomes, http, bc, erp, fin, fout>>

lifeVars   == <<lifespanPc, waited, lastCall>>
streamVars == <<ocr_nlp, wsPc, image, job, sent, inbox, sendResult, outcomes, http>>
fusionVars == <<fin, fout>>

-----------------------------------------------------------------------------
(* Bounds *)

\* requests the clients send: the frames of all connections and the
\* classify-multi requests together
MaxMessages == 2
\* calls of predict / start_loading / status in the lifecycle specification
MaxCalls == 3
\* keywords handed to fusion_cnn_ocr
MaxKeywords == 2

\* the websocket objects of the streaming specification
Conns == {"ws1", "ws2"}
\* the websocket objects of the broadcast specification
BConns == {"ws1", "ws2", "ws3"}
AllConns == Conns \cup BConns

None == "None"

-----------------------------------------------------------------------------
(* ModelManager (models.py) *)

\* ModelManager.classes, in list order
classes == <<"Drawing", "Invoice", "Report", "Receipt">>
ClassSet == {classes[i] : i \in 1..Len(classes)}

\* What _load_model_now can meet: the file is missing, the tensorflow import
\* fails, load_model or the test prediction raises, or everything succeeds.
LoadOutcomes == {"missing_file", "import_error", "load_error", "ok"}

\* The attributes ModelManager.__init__ sets on the object
ModelManagerAttrs == {"model_path", "model", "classes", "start_time",
                      "total_predictions", "_model_loaded", "mock_patterns"}

\* the object before the module-level ModelManager(...) call has run
Unconstructed ==
    [constructed |-> FALSE, model |-> None, model_loaded |-> FALSE,
     total_predictions |-> 0, load_attempts |-> 0]

\* _load_model_now: the early returns leave model and _model_loaded as
\* __init__ set them; the except branch resets them; success sets both.
\* load_attempts counts the calls of this method (history).
_load_model_now(m, outcome) ==
    LET a == [m EXCEPT !.load_attempts = @ + 1] IN
    CASE outcome = "missing_file" -> a
      [] outcome = "import_error" -> a
      [] outcome = "load_error"   -> [a EXCEPT !.model = None, !.model_loaded = FALSE]
      [] outcome = "ok"           -> [a EXCEPT !.model = "keras", !.model_loaded = TRUE]

\* ModelManager.__init__: sets the fields, then loads synchronously
ModelManager__init__(outcome) ==
    _load_model_now([constructed |-> TRUE, model |-> None, model_loaded |-> FALSE,
                     total_predictions |-> 0, load_attempts |-> 0], outcome)

\* faulty variant: start_loading tries the load again when the model is not loaded
start_loading_Retry(m) == IF m.model_loaded THEN m ELSE _load_model_now(m, "ok")

\* start_loading only logs
start_loading(m) == m

is_model_loaded(m) == m.model_loaded

\* get_load_progress, in percent
get_load_progress(m) == 100

\* Scores and confidences are exact fractions counted in units of 1/3600
\* (the least unit in which the hundredths of the confidence tables and the
\* keyword scores k/12 and k/18 of the fusion are all whole numbers).
Unit == 36 * 100
Pct(p) == p * 36

\* mock_patterns[...]['confidence_range'], in percent
confidence_range ==
    [Drawing |-> <<75, 92>>, Invoice |-> <<78, 95>>,
     Report  |-> <<72, 89>>, Receipt |-> <<76, 93>>]

\* [c for c in self.classes if c != selected_class]
RECURSIVE OtherClasses(_, _)
OtherClasses(cs, selected) ==
    IF cs = <<>> THEN <<>>
    ELSE IF Head(cs) = selected THEN OtherClasses(Tail(cs), selected)
    ELSE <<Head(cs)>> \o OtherClasses(Tail(cs), selected)

\* The random draws of one _mock_predict call: the class of random.choices,
\* the confidence of random.uniform within the range of that class, and the
\* Dirichlet split of the remaining mass over the three other classes.
Splits(remaining) ==
    { <<remaining \div 3, remaining \div 3, remaining - 2 * (remaining \div 3)>>,
      <<remaining \div 2, remaining \div 4, remaining - (remaining \div 2) - (remaining \div 4)>> }

MockDraws ==
    UNION { UNION { { [class |-> cls, confidence |-> conf, other_scores |-> sp]
                      : sp \in Splits(Unit - conf) }
                    : conf \in { Pct(confidence_range[cls][1]),
                                 Pct(confidence_range[cls][2]),
                                 (Pct(confidence_range[cls][1]) + Pct(confidence_range[cls][2])) \div 2 } }
            : cls \in ClassSet }

\* What self.model.predict can do on a loaded model: raise, or return one
\* score per class (index order of self.classes) summing to 1.
Raises == <<"raises">>
RealOutputs ==
    { Raises,
      <<Pct(70), Pct(10), Pct(10), Pct(10)>>,
      <<Pct(5), Pct(90), Pct(3), Pct(2)>>,
      <<Pct(30), Pct(30), Pct(40), Pct(0)>>,
      <<Pct(25), Pct(25), Pct(25), Pct(25)>>,
      <<Pct(0), Pct(0), Pct(0), Pct(100)>> }

\* np.argmax: the first index holding the maximum
argmax(v) ==
    CHOOSE i \in 1..Len(v) :
        /\ \A j \in 1..Len(v) : v[j] <= v[i]
        /\ \A j \in 1..(i - 1) : v[j] < v[i]

IndexOf(cs, x) == CHOOSE i \in 1..Len(cs) : cs[i] = x

\* faulty variant: the selected class is given the remaining mass
_mock_predict_Remaining(draw) ==
    LET others == OtherClasses(classes, draw.class) IN
    [raised |-> FALSE, source |-> "mock",
     class |-> draw.class,
     confidence |-> draw.confidence,
     all_scores |-> [cls \in ClassSet |->
                       IF cls = draw.class THEN Unit - draw.confidence
                       ELSE draw.other_scores[IndexOf(others, cls)]]]

\* _mock_predict: nothing in it depends on the image, nothing in it raises
_mock_predict(draw) ==
    LET others == OtherClasses(classes, draw.class) IN
    [raised |-> FALSE, source |-> "mock",
     class |-> draw.class,
     confidence |-> draw.confidence,
     all_scores |-> [cls \in ClassSet |->
                       IF cls = draw.class THEN draw.confidence
                       ELSE draw.other_scores[IndexOf(others, cls)]]]

\* faulty variant: no try/except around the real prediction
_real_predict_NoCatch(out, draw) ==
    IF out = Raises
    THEN [raised |-> TRUE, source |-> "real", class |-> None,
          confidence |-> 0, all_scores |-> None]
    ELSE [raised |-> FALSE, source |-> "real",
          class |-> classes[argmax(out)],
          confidence |-> out[argmax(out)],
          all_scores |-> [cls \in ClassSet |-> out[IndexOf(classes, cls)]]]

\* _real_predict: the model's answer, or the simulated one when anything raises
_real_predict(out, draw) ==
    IF out = Raises THEN _mock_predict(draw)
    ELSE [raised |-> FALSE, source |-> "real",
          class |-> classes[argmax(out)],
          confidence |-> out[argmax(out)],
          all_scores |-> [cls \in ClassSet |-> out[IndexOf(classes, cls)]]]

\* predict
predict(m, out, draw) ==
    IF is_model_loaded(m) THEN _real_predict(out, draw)
    ELSE _mock_predict(draw)

\* mock_patterns[...]['keywords']
mock_keywords ==
    [Drawing |-> << <<"p","l","a","n">>,
                    <<"s","c","h","e_acute","m","a">>,
                    <<"d","e","s","i","g","n">>,
                    <<"t","e","c","h","n","i","q","u","e">>,
                    <<"b","l","u","e","p","r","i","n","t">> >>,
     Invoice |-> << <<"f","a","c","t","u","r","e">>,
                    <<"m","o","n","t","a","n","t">>,
                    <<"t","o","t","a","l">>,
                    <<"T","V","A">>,
                    <<"p","a","i","e","m","e","n","t">> >>,
     Report  |-> << <<"r","a","p","p","o","r","t">>,
                    <<"a","n","a","l","y","s","e">>,
                    <<"r","e_acute","s","u","l","t","a","t","s">>,
                    <<"c","o","n","c","l","u","s","i","o","n">>,
                    <<"e_acute","t","u","d","e">> >>,
     Receipt |-> << <<"r","e","c_cedilla","u">>,
                    <<"t","i","c","k","e","t">>,
                    <<"c","a","i","s","s","e">>,
                    <<"a","c","h","a","t">>,
                    <<"c","o","m","m","e","r","c","e">> >>]

\* k = random.randint(3, 5)
MockSampleMin == 3
MockSampleMax == 5

\* faulty variant: the keywords come from the first entry of the table
get_mock_keywords_FirstEntry(document_class, sample) ==
    [i \in 1..Len(sample) |-> mock_keywords["Drawing"][sample[i]]] \o <<>>

\* ModelManager.get_mock_keywords
get_mock_keywords(document_class, sample) ==
    IF document_class \in DOMAIN mock_keywords
    THEN [i \in 1..Len(sample) |-> mock_keywords[document_class][sample[i]]] \o <<>>
    ELSE <<>>

\* faulty variant: "=+ 1" written for "+= 1"
increment_predictions_Assign(m) == [m EXCEPT !.total_predictions = 1]

\* ModelManager.increment_predictions: one synchronous statement
increment_predictions(m) == [m EXCEPT !.total_predictions = @ + 1]

-----------------------------------------------------------------------------
(* ConnectionManager (main.py) *)

\* list.remove: drops the first occurrence
RECURSIVE ListRemove(_, _)
ListRemove(l, x) ==
    IF l = <<>> THEN <<>>
    ELSE IF Head(l) = x THEN Tail(l)
    ELSE <<Head(l)>> \o ListRemove(Tail(l), x)

InList(l, x) == \E i \in 1..Len(l) : l[i] = x

\* ConnectionManager.connect, after websocket.accept()
connect(conns, ws) == Append(conns, ws)

\* faulty variant: drops the newest registration, whoever it belongs to
disconnect_Pop(conns, ws) ==
    IF conns = <<>> THEN conns ELSE SubSeq(conns, 1, Len(conns) - 1)

\* ConnectionManager.disconnect
disconnect(conns, ws) == IF InList(conns, ws) THEN ListRemove(conns, ws) ELSE conns

\* websocket.send_json raises when the peer is gone
SendFails(ws) == ~clientOpen[ws]

\* faulty variant: the message goes to every registered connection
send_personal_message_ToAll(conns, inb, message, ws) ==
    [active_connections |-> conns,
     inbox |-> [c \in DOMAIN inb |->
                  IF InList(conns, c) /\ ~SendFails(c)
                  THEN Append(inb[c], message) ELSE inb[c]],
     returned |-> None]

\* faulty variant: a failed send unregisters the connection, as broadcast does
send_personal_message_Unregister(conns, inb, message, ws) ==
    IF SendFails(ws)
    THEN [active_connections |-> disconnect(conns, ws), inbox |-> inb, returned |-> None]
    ELSE [active_connections |-> conns,
          inbox |-> [inb EXCEPT ![ws] = Append(@, message)],
          returned |-> None]

\* ConnectionManager.send_personal_message: the effect of one call on the
\* registry and on what the peers have received, and what the caller gets.
\*   try:    await websocket.send_json(message)   -> delivered, returns None
\*   except: logger.error(...)                    -> nothing else, returns None
send_personal_message(conns, inb, message, ws) ==
    IF SendFails(ws)
    THEN [active_connections |-> conns, inbox |-> inb, returned |-> None]
    ELSE [active_connections |-> conns,
          inbox |-> [inb EXCEPT ![ws] = Append(@, message)],
          returned |-> None]

-----------------------------------------------------------------------------
(* OCRNLPPipeline (ocr_nlp.py) *)

\* Strings are sequences of characters, so that the string operations of the
\* code are computed.  Accented letters are written as named characters.

UpperCase == <<"A", "B", "C", "D", "E", "F", "G", "H", "I", "J", "K", "L", "M", "N", "O", "P", "Q", "R", "S", "T", "U", "V", "W", "X", "Y", "Z">>
LowerCase == <<"a", "b", "c", "d", "e", "f", "g", "h", "i", "j", "k", "l", "m", "n", "o", "p", "q", "r", "s", "t", "u", "v", "w", "x", "y", "z">>

\* str.lower
LowerOf == [c \in {UpperCase[i] : i \in 1..Len(UpperCase)} |->
              LowerCase[CHOOSE i \in 1..Len(UpperCase) : UpperCase[i] = c]]
LowerChar(c) == IF c \in DOMAIN LowerOf THEN LowerOf[c] ELSE c
lower(s) == [i \in 1..Len(s) |-> LowerChar(s[i])] \o <<>>

\* the value None where a string is expected, and the truth value of an
\* optional string (None and "" are false)
NoText == <<None>>
Truthy(t) == t # NoText /\ t # <<>>

\* self.stop_words
stop_words == {
    <<"l", "e">>, <<"l", "a">>, <<"l", "e", "s">>, <<"u", "n">>,
    <<"u", "n", "e">>, <<"d", "e", "s">>, <<"d", "e">>, <<"d", "u">>,
    <<"e", "t">>, <<"o", "u">>, <<"m", "a", "i", "s">>, <<"d", "o", "n", "c">>,
    <<"c", "a", "r">>, <<"a_grave">>, <<"a", "u">>, <<"a", "u", "x">>,
    <<"p", "o", "u", "r">>, <<"p", "a", "r">>, <<"s", "u", "r">>, <<"d", "a", "n", "s">>,
    <<"c", "e">>, <<"c", "e", "t", "t", "e">>, <<"c", "e", "s">>, <<"q", "u", "i">>,
    <<"q", "u", "e">>, <<"q", "u", "o", "i">>, <<"d", "o", "n", "t">>, <<"o", "u_grave">>,
    <<"s", "e">>, <<"s", "a">>, <<"s", "o", "n">>, <<"s", "e", "s">>,
    <<"m", "o", "n">>, <<"m", "a">>, <<"m", "e", "s">>, <<"t", "o", "n">>,
    <<"t", "a">>, <<"t", "e", "s">>, <<"i", "l">>, <<"e", "l", "l", "e">>,
    <<"i", "l", "s">>, <<"e", "l", "l", "e", "s">>, <<"n", "o", "u", "s">>, <<"v", "o", "u", "s">>,
    <<"j", "e">>, <<"t", "u">>, <<"o", "n">>, <<"e", "s", "t">>,
    <<"s", "o", "n", "t">>, <<"a">>, <<"o", "n", "t">>, <<"f", "a", "i", "t">>,
    <<"e_circ", "t", "r", "e">>, <<"a", "v", "o", "i", "r">>, <<"f", "a", "i", "r", "e">>, <<"p", "l", "u", "s">>,
    <<"m", "o", "i", "n", "s">>, <<"t", "r", "e_grave", "s">>, <<"b", "i", "e", "n">>, <<"m", "a", "l">>,
    <<"t", "o", "u", "t">>, <<"t", "o", "u", "s">>, <<"t", "o", "u", "t", "e">> }

\* the characters the regular expression [^a-z(accents)\s] keeps: the lower-case
\* letters, the accented letters it lists, and white space
Whitespace == {" ", "newline", "tab"}
KeptChars == {LowerCase[i] : i \in 1..Len(LowerCase)}
             \cup {"a_grave", "a_circ", "a_uml", "e_acute", "e_grave", "e_circ", "e_uml", "i_uml", "i_circ", "o_circ", "u_grave", "u_circ", "u_uml", "y_uml", "c_cedilla"}
             \cup Whitespace

\* re.sub(r'[^a-z(accents)\s]', ' ', text)
clean(s) == [i \in 1..Len(s) |-> IF s[i] \in KeptChars THEN s[i] ELSE " "] \o <<>>

\* str.split(): the maximal runs of characters that are not white space
RECURSIVE SplitFrom(_, _, _)
SplitFrom(s, i, word) ==
    IF i > Len(s) THEN (IF word = <<>> THEN <<>> ELSE <<word>>)
    ELSE IF s[i] \in Whitespace
         THEN (IF word = <<>> THEN <<>> ELSE <<word>>) \o SplitFrom(s, i + 1, <<>>)
         ELSE SplitFrom(s, i + 1, Append(word, s[i]))
split(s) == SplitFrom(s, 1, <<>>)

\* len(text.strip()) == 0
IsBlank(s) == \A i \in 1..Len(s) : s[i] \in Whitespace

\* the keys of Counter(words), in insertion order: each word at its first
\* occurrence
RECURSIVE Keys(_, _)
Keys(words, seen) ==
    IF words = <<>> THEN <<>>
    ELSE IF Head(words) \in seen THEN Keys(Tail(words), seen)
    ELSE <<Head(words)>> \o Keys(Tail(words), seen \cup {Head(words)})

\* Counter(words)[w]
Count(words, w) == Cardinality({i \in 1..Len(words) : words[i] = w})

\* Counter.most_common(n): heapq.nlargest(n, items, key=count), which is
\* sorted(items, key=count, reverse=True)[:n]; the sort is stable, so equal
\* counts stay in insertion order
RECURSIVE most_common(_, _, _)
most_common(keys, words, n) ==
    IF n <= 0 \/ keys = <<>> THEN <<>>
    ELSE LET best == CHOOSE i \in 1..Len(keys) :
                        /\ \A j \in 1..Len(keys) : Count(words, keys[j]) <= Count(words, keys[i])
                        /\ \A j \in 1..(i - 1) : Count(words, keys[j]) < Count(words, keys[i])
         IN <<keys[best]>> \o
            most_common(SubSeq(keys, 1, best - 1) \o SubSeq(keys, best + 1, Len(keys)),
                        words, n - 1)

\* faulty variant: the words are ranked without the stop-word filter
extract_keywords_NoStopWords(text, top_k) ==
    IF ~Truthy(text) \/ IsBlank(text) THEN <<>>
    ELSE LET words == SelectSeq(split(clean(lower(text))), LAMBDA w : Len(w) > 3)
         IN most_common(Keys(words, {}), words, top_k)

\* faulty variant: the words are returned in the order of the text, not ranked
extract_keywords_Unranked(text, top_k) ==
    IF ~Truthy(text) \/ IsBlank(text) THEN <<>>
    ELSE LET words == SelectSeq(split(clean(lower(text))),
                                LAMBDA w : w \notin stop_words /\ Len(w) > 3)
             keys == Keys(words, {})
         IN SubSeq(keys, 1, IF top_k < Len(keys) THEN top_k ELSE Len(keys))

\* OCRNLPPipeline.extract_keywords (nothing in its try block raises on a string)
extract_keywords(text, top_k) ==
    IF ~Truthy(text) \/ IsBlank(text) THEN <<>>
    ELSE LET words == SelectSeq(split(clean(lower(text))),
                                LAMBDA w : w \notin stop_words /\ Len(w) > 3)
         IN most_common(Keys(words, {}), words, top_k)

\* What OCRNLPPipeline._init_ocr can meet: easyocr cannot be imported,
\* easyocr.Reader raises, or the reader is built
OcrInitOutcomes == {"import_error", "init_error", "ok"}

\* the name ocr_nlp before the module-level OCRNLPPipeline() call has run
NoPipeline == [constructed |-> FALSE, ocr_reader |-> None]

\* OCRNLPPipeline.__init__: self.ocr_reader = None, then _init_ocr, whose two
\* except branches only log
OCRNLPPipeline__init__(outcome) ==
    [constructed |-> TRUE,
     ocr_reader |-> IF outcome = "ok" THEN "easyocr.Reader" ELSE None]

\* What extract_text can meet on the bytes it is given: Image.open raises,
\* readtext raises, or readtext gives a list of blocks (bbox, text,
\* confidence); confidences are in thousandths
Block(text, confidence) == [text |-> text, confidence |-> confidence]
OpenRaises == [raised |-> "Image.open", blocks |-> <<>>]
ReadRaises == [raised |-> "readtext", blocks |-> <<>>]
Read(blocks) == [raised |-> None, blocks |-> blocks]

\* the result of extract_text when no text could be extracted
NoOcrResult == [text |-> <<>>, confidence |-> 0, detected_blocks |-> 0, error |-> None]

\* " ".join(texts)
RECURSIVE Join(_)
Join(texts) ==
    IF texts = <<>> THEN <<>>
    ELSE IF Len(texts) = 1 THEN texts[1]
    ELSE texts[1] \o <<" ">> \o Join(Tail(texts))

RECURSIVE Sum(_)
Sum(xs) == IF xs = <<>> THEN 0 ELSE Head(xs) + Sum(Tail(xs))

\* round(total / n, 3) in thousandths: to the nearest, halves to even
Round3(total, n) ==
    LET q == total \div n
        r == total % n
    IN IF 2 * r < n THEN q
       ELSE IF 2 * r > n THEN q + 1
       ELSE IF q % 2 = 0 THEN q ELSE q + 1

\* faulty variant: an exception of Image.open or readtext leaves the function
\* (Raises in place of the result)
extract_text_Raises(self, reading) ==
    IF self.ocr_reader = None
    THEN [NoOcrResult EXCEPT !.error = "OCR not available"]
    ELSE IF reading.raised # None
    THEN [NoOcrResult EXCEPT !.text = Raises, !.error = reading.raised]
    ELSE LET texts == [i \in 1..Len(reading.blocks) |-> reading.blocks[i].text] \o <<>>
             confidences == [i \in 1..Len(reading.blocks) |-> reading.blocks[i].confidence] \o <<>>
         IN [text |-> Join(texts),
             confidence |-> IF confidences # <<>> THEN Round3(Sum(confidences), Len(confidences))
                            ELSE 0,
             detected_blocks |-> Len(reading.blocks),
             error |-> None]

\* OCRNLPPipeline.extract_text
extract_text(self, reading) ==
    IF self.ocr_reader = None
    THEN [NoOcrResult EXCEPT !.error = "OCR not available"]
    ELSE IF reading.raised # None
    THEN [NoOcrResult EXCEPT !.error = reading.raised]
    ELSE LET texts == [i \in 1..Len(reading.blocks) |-> reading.blocks[i].text] \o <<>>
             confidences == [i \in 1..Len(reading.blocks) |-> reading.blocks[i].confidence] \o <<>>
         IN [text |-> Join(texts),
             confidence |-> IF confidences # <<>> THEN Round3(Sum(confidences), Len(confidences))
                            ELSE 0,
             detected_blocks |-> Len(reading.blocks),
             error |-> None]

\* the top_k the callers pass, and the parameter's default
top_k_default == 5

-----------------------------------------------------------------------------
(* websocket_classify (main.py) *)

Progress(step, pct) == [type |-> "progress", step |-> step, progress |-> pct]
EvStart  == Progress("start", 0)
EvLoaded == Progress("loaded", 20)
\* faulty variant: a mistyped percentage
EvCnn_Mistyped == Progress("cnn", 5)
EvCnn    == Progress("cnn", 50)
EvOcr    == Progress("ocr", 70)
EvFusion == Progress("fusion", 90)
EvResult(j) == [type |-> "result", data |-> j]
EvError(why) == [type |-> "error", message |-> why]

\* What a client frame can be.  A classify message carries an image that is
\* valid, that cannot be decoded (bad base64, not an image, missing), or
\* whose header opens but whose pixel data is truncated.
ImageKinds == {"valid", "undecodable", "truncated"}
FrameKinds == {"classify", "other_type", "not_object", "not_json"}

\* the draws and model outputs met in the streaming specification
StreamDraws == { d \in MockDraws :
                   /\ d.class \in {"Invoice", "Report"}
                   /\ d.confidence = Pct(confidence_range[d.class][1])
                   /\ d.other_scores[1] = d.other_scores[2] }
StreamOutputs == { Raises, <<Pct(5), Pct(90), Pct(3), Pct(2)>>,
                   <<Pct(30), Pct(30), Pct(40), Pct(0)>> }

\* what the OCR engine reads on the image of a streaming request: one block
StreamReadings == { Read(<<Block(<<"F", "a", "c", "t", "u", "r", "e", " ", "T", "V", "A">>, 900)>>) }

\* what the OCR engine can do with the image of a request: Image.open or
\* readtext raises, nothing is read, one block is read, or two blocks
\* whose mean confidence is rounded
OcrReadings == { OpenRaises, ReadRaises, Read(<<>>),
                 Read(<<Block(<<"F", "a", "c", "t", "u", "r", "e", " ", "T", "V", "A">>, 900)>>),
                 Read(<<Block(<<"L", "e", " ", "p", "l", "a", "n">>, 333), Block(<<"e", "s", "t", " ", "c", "o", "t", "e_acute">>, 334)>>) }

\* extract_keywords(text, top_k=5) on the texts these readings give, computed
\* once
ReadTexts ==
    {extract_text(OCRNLPPipeline__init__(o), r).text :
        o \in OcrInitOutcomes, r \in OcrReadings \cup StreamReadings}
read_keywords == [text \in ReadTexts |-> extract_keywords(text, top_k_default)]

\* the samples met in the streaming specification: three positions in
\* order, and all five in reverse order
StreamSamples == {<<1, 2, 3>>, <<5, 4, 3, 2, 1>>}

PipelinePcs == {"start", "loaded", "cnn", "ocr", "fusion", "result", "count", "error"}

\* frames received so far on one connection, the one in progress included
Received(ws) == Len(outcomes[ws]) + (IF wsPc[ws] \in PipelinePcs THEN 1 ELSE 0)

RECURSIVE SumReceived(_)
SumReceived(S) ==
    IF S = {} THEN 0
    ELSE LET c == CHOOSE x \in S : TRUE IN Received(c) + SumReceived(S \ {c})

FramesReceived == SumReceived(AllConns)

\* frames and classify-multi requests received so far
RequestsReceived == FramesReceived + http.requests

\* history: a received frame and the terminal event its handling ended with
Outcome(frame, img, end) == [frame |-> frame, image |-> img, end |-> end]

\* no classify-multi request yet
NoHttp == [pc |-> "idle", files |-> <<>>, requests |-> 0, classified |-> 0,
           status |-> None]

\* no send_personal_message call has returned yet
NoSend == "no_send"

\* the locals of the pipeline before it runs: keywords = [], ocr_text = None
NoJob == [cnn |-> None, class |-> None, kwsrc |-> None, keywords |-> <<>>,
          ocr_result |-> NoOcrResult, ocr_text |-> NoText]

\* one send of the handler: logged as emitted, delivered if the peer is there
Emit(ws, ev) ==
    LET r == send_personal_message(active_connections, inbox,
                                   [origin |-> ws, ev |-> ev], ws) IN
    /\ sent' = [sent EXCEPT ![ws] = Append(@, ev)]
    /\ inbox' = r.inbox
    /\ active_connections' = r.active_connections
    /\ sendResult' = [sendResult EXCEPT ![ws] = r.returned]

\* await ws_manager.connect(websocket)
WsConnect(ws) ==
    /\ wsPc[ws] = "new"
    /\ clientOpen[ws]
    /\ active_connections' = connect(active_connections, ws)
    /\ wsPc' = [wsPc EXCEPT ![ws] = "recv"]
    /\ UNCHANGED <<mm, clientOpen, image, job, sent, inbox, sendResult, outcomes>>

\* the peer goes away (at any moment)
ClientClose(ws) ==
    /\ clientOpen[ws]
    /\ wsPc[ws] # "new"
    /\ clientOpen' = [clientOpen EXCEPT ![ws] = FALSE]
    /\ UNCHANGED <<mm, active_connections, wsPc, image, job, sent, inbox, sendResult, outcomes>>

\* data = await websocket.receive_json(), and the dispatch on data.get("type").
\*   not_json   : json.loads raises            -> outer except: disconnect
\*   not_object : data.get raises              -> outer except: disconnect
\*   other_type : the if is false              -> back to receive_json
\*   classify   : the pipeline starts
WsReceive(ws, frame, img) ==
    /\ wsPc[ws] = "recv"
    /\ clientOpen[ws]
    /\ RequestsReceived < MaxMessages
    /\ CASE frame \in {"not_json", "not_object"} ->
              /\ active_connections' = disconnect(active_connections, ws)
              /\ wsPc' = [wsPc EXCEPT ![ws] = "closed"]
              /\ outcomes' = [outcomes EXCEPT ![ws] = Append(@, Outcome(frame, None, "none"))]
              /\ sent' = [sent EXCEPT ![ws] = <<>>]
              /\ inbox' = [inbox EXCEPT ![ws] = <<>>]
              /\ UNCHANGED <<image, job>>
         [] frame = "other_type" ->
              /\ outcomes' = [outcomes EXCEPT ![ws] = Append(@, Outcome(frame, None, "none"))]
              /\ sent' = [sent EXCEPT ![ws] = <<>>]
              /\ inbox' = [inbox EXCEPT ![ws] = <<>>]
              /\ UNCHANGED <<active_connections, wsPc, image, job>>
         [] frame = "classify" ->
              /\ wsPc' = [wsPc EXCEPT ![ws] = "start"]
              /\ image' = [image EXCEPT ![ws] = img]
              /\ job' = [job EXCEPT ![ws] = NoJob]
              /\ sent' = [sent EXCEPT ![ws] = <<>>]
              /\ inbox' = [inbox EXCEPT ![ws] = <<>>]
              /\ UNCHANGED <<active_connections, outcomes>>
    /\ UNCHANGED <<mm, clientOpen, sendResult>>

\* faulty variant: the handler ends on WebSocketDisconnect without
\* ws_manager.disconnect
WsReceiveDisconnect_Keep(ws) ==
    /\ wsPc[ws] = "recv"
    /\ ~clientOpen[ws]
    /\ wsPc' = [wsPc EXCEPT ![ws] = "closed"]
    /\ UNCHANGED <<mm, active_connections, clientOpen, image, job, sent, inbox, sendResult,
                   outcomes>>

\* receive_json raises WebSocketDisconnect once the peer is gone
WsReceiveDisconnect(ws) ==
    /\ wsPc[ws] = "recv"
    /\ ~clientOpen[ws]
    /\ active_connections' = disconnect(active_connections, ws)
    /\ wsPc' = [wsPc EXCEPT ![ws] = "closed"]
    /\ UNCHANGED <<mm, clientOpen, image, job, sent, inbox, sendResult, outcomes>>

\* The pipeline of one classify message.  Each action runs the handler from
\* one await to the next: the synchronous code, then one send.  An exception
\* raised by the synchronous code leads to the except branch ("error").

\* send "start"
WsStart(ws) ==
    /\ wsPc[ws] = "start"
    /\ Emit(ws, EvStart)
    /\ wsPc' = [wsPc EXCEPT ![ws] = "loaded"]
    /\ UNCHANGED <<mm, clientOpen, image, job, outcomes>>

\* base64.b64decode and Image.open, then send "loaded"
WsLoaded(ws) ==
    /\ wsPc[ws] = "loaded"
    /\ IF image[ws] = "undecodable"
       THEN /\ wsPc' = [wsPc EXCEPT ![ws] = "error"]
            /\ UNCHANGED <<sent, inbox, active_connections, sendResult>>
       ELSE /\ Emit(ws, EvLoaded)
            /\ wsPc' = [wsPc EXCEPT ![ws] = "cnn"]
    /\ UNCHANGED <<mm, clientOpen, image, job, outcomes>>

\* process_image and model_manager.predict, then send "cnn"
WsCnn(ws, out, draw) ==
    /\ wsPc[ws] = "cnn"
    /\ IF image[ws] = "truncated"
       THEN /\ wsPc' = [wsPc EXCEPT ![ws] = "error"]
            /\ UNCHANGED <<sent, inbox, active_connections, sendResult, job>>
       ELSE LET p == predict(mm, out, draw) IN
            IF p.raised
            THEN /\ wsPc' = [wsPc EXCEPT ![ws] = "error"]
                 /\ UNCHANGED <<sent, inbox, active_connections, sendResult, job>>
            ELSE /\ job' = [job EXCEPT ![ws] = [@ EXCEPT !.cnn = p.source, !.class = p.class]]
                 /\ Emit(ws, EvCnn)
                 /\ wsPc' = [wsPc EXCEPT ![ws] = "ocr"]
    /\ UNCHANGED <<mm, clientOpen, image, outcomes>>

\* if model_manager.is_model_loaded(): send "ocr";
\* else: get_mock_keywords, then send "fusion"
WsOcr(ws, sample) ==
    /\ wsPc[ws] = "ocr"
    /\ IF is_model_loaded(mm)
       THEN /\ Emit(ws, EvOcr)
            /\ wsPc' = [wsPc EXCEPT ![ws] = "fusion"]
            /\ UNCHANGED job
       ELSE /\ job' = [job EXCEPT ![ws] =
                        [@ EXCEPT !.kwsrc = "mock",
                                  !.keywords = get_mock_keywords(job[ws].class, sample)]]
            /\ Emit(ws, EvFusion)
            /\ wsPc' = [wsPc EXCEPT ![ws] = "result"]
    /\ UNCHANGED <<mm, clientOpen, image, outcomes>>

\* ocr_result = ocr_nlp.extract_text(image_bytes); ocr_text = ocr_result.get('text', '');
\* if ocr_text: keywords = ocr_nlp.extract_keywords(ocr_text, top_k=5);
\* then send "fusion"
WsFusion(ws, reading) ==
    /\ wsPc[ws] = "fusion"
    /\ LET ocr_result == extract_text(ocr_nlp, reading)
           ocr_text == ocr_result.text
           keywords == IF Truthy(ocr_text) THEN read_keywords[ocr_text]
                       ELSE job[ws].keywords
       IN IF ocr_text = Raises
          THEN \* an exception would reach the except branch of the request
               /\ wsPc' = [wsPc EXCEPT ![ws] = "error"]
               /\ UNCHANGED <<sent, inbox, active_connections, sendResult, job>>
          ELSE /\ job' = [job EXCEPT ![ws] =
                           [@ EXCEPT !.kwsrc = "ocr", !.ocr_result = ocr_result,
                                     !.ocr_text = ocr_text, !.keywords = keywords]]
               /\ Emit(ws, EvFusion)
               /\ wsPc' = [wsPc EXCEPT ![ws] = "result"]
    /\ UNCHANGED <<mm, clientOpen, image, outcomes>>

\* fusion_cnn_ocr, then send the result
WsResult(ws) ==
    /\ wsPc[ws] = "result"
    /\ Emit(ws, EvResult(job[ws]))
    /\ wsPc' = [wsPc EXCEPT ![ws] = "count"]
    /\ UNCHANGED <<mm, clientOpen, image, job, outcomes>>

\* faulty variant: increment_predictions raises, so the request that got its
\* result goes on to the except branch
WsCount_Raises(ws) ==
    /\ wsPc[ws] = "count"
    /\ wsPc' = [wsPc EXCEPT ![ws] = "error"]
    /\ UNCHANGED <<mm, active_connections, clientOpen, image, job, sent, inbox, sendResult,
                   outcomes>>

\* once the send of the result has returned: increment_predictions, and
\* back to receive_json
WsCount(ws) ==
    /\ wsPc[ws] = "count"
    /\ mm' = increment_predictions(mm)
    /\ outcomes' = [outcomes EXCEPT ![ws] = Append(@, Outcome("classify", image[ws], "result"))]
    /\ wsPc' = [wsPc EXCEPT ![ws] = "recv"]
    /\ UNCHANGED <<active_connections, clientOpen, image, job, sent, inbox, sendResult>>

\* faulty variant: the error is reported but the pipeline goes on to its result
WsError_Resume(ws) ==
    /\ wsPc[ws] = "error"
    /\ Emit(ws, EvError(image[ws]))
    /\ wsPc' = [wsPc EXCEPT ![ws] = "result"]
    /\ UNCHANGED <<mm, clientOpen, image, job, outcomes>>

\* faulty variant: the error is reported and the connection dropped, as the outer
\* except does
WsError_Disconnect(ws) ==
    /\ wsPc[ws] = "error"
    /\ LET r == send_personal_message(active_connections, inbox,
                     [origin |-> ws, ev |-> EvError(image[ws])], ws) IN
         /\ sent' = [sent EXCEPT ![ws] = Append(@, EvError(image[ws]))]
         /\ inbox' = r.inbox
         /\ sendResult' = [sendResult EXCEPT ![ws] = r.returned]
         /\ active_connections' = disconnect(r.active_connections, ws)
    /\ outcomes' = [outcomes EXCEPT ![ws] = Append(@, Outcome("classify", image[ws], "error"))]
    /\ wsPc' = [wsPc EXCEPT ![ws] = "closed"]
    /\ UNCHANGED <<mm, clientOpen, image, job>>

\* except Exception: send the error event, back to receive_json
WsError(ws) ==
    /\ wsPc[ws] = "error"
    /\ Emit(ws, EvError(image[ws]))
    /\ outcomes' = [outcomes EXCEPT ![ws] = Append(@, Outcome("classify", image[ws], "error"))]
    /\ wsPc' = [wsPc EXCEPT ![ws] = "recv"]
    /\ UNCHANGED <<mm, clientOpen, image, job>>

websocket_classify(ws) ==
    \/ WsConnect(ws)
    \/ \E frame \in FrameKinds : \E img \in ImageKinds :
          /\ frame # "classify" => img = "valid"
          /\ WsReceive(ws, frame, img)
    \/ WsReceiveDisconnect(ws)
    \/ WsStart(ws)
    \/ WsLoaded(ws)
    \/ \E out \in StreamOutputs : \E draw \in StreamDraws : WsCnn(ws, out, draw)
    \/ \E sample \in StreamSamples : WsOcr(ws, sample)
    \/ \E reading \in StreamReadings : WsFusion(ws, reading)
    \/ WsResult(ws)
    \/ WsCount(ws)
    \/ WsError(ws)

-----------------------------------------------------------------------------
(* classify_multiple_documents (main.py): POST /api/v1/classify-multi *)

\* What an uploaded file can be: an image, a PDF (here of two pages), a
\* file of another content type (neither branch applies), or a file
\* announced as an image that cannot be opened (Image.open raises)
ImageFile   == [kind |-> "image", pages |-> <<"image">>]
PdfFile     == [kind |-> "pdf", pages |-> <<"page", "page">>]
OtherFile   == [kind |-> "other", pages |-> <<>>]
CorruptFile == [kind |-> "corrupt", pages |-> <<>>]

\* the file lists of the classify-multi requests
Uploads == { <<ImageFile>>, <<PdfFile, ImageFile>>, <<ImageFile, CorruptFile>>,
             <<OtherFile, PdfFile>> }

\* the classifications of one file: one per page of a PDF, one for an image
Pages(file) == Len(file.pages)

\* the body of the per-page loop, n times: predict, keywords, fusion_cnn_ocr,
\* results.append and model_manager.increment_predictions(), with no await
RECURSIVE ClassifyPages(_, _)
ClassifyPages(m, n) == IF n = 0 THEN m ELSE ClassifyPages(increment_predictions(m), n - 1)

\* the request arrives: verify_token (raises 401 on a bad token), then the
\* loop over the files starts and waits for the first file.read()
HttpBegin(token_ok, files) ==
    /\ http.pc = "idle"
    /\ RequestsReceived < MaxMessages
    /\ http' = IF token_ok
               THEN [http EXCEPT !.pc = "read", !.files = files,
                                 !.requests = @ + 1, !.status = None]
               ELSE [http EXCEPT !.requests = @ + 1, !.status = "401"]
    /\ UNCHANGED mm

\* file.read() returns: the file is classified page by page without another
\* await; an exception leaves the handler (500); after the last file the
\* response is returned
HttpFile ==
    /\ http.pc = "read"
    /\ LET file == Head(http.files)
           rest == Tail(http.files) IN
       IF file.kind = "corrupt"
       THEN /\ http' = [http EXCEPT !.pc = "idle", !.files = <<>>, !.status = "500"]
            /\ UNCHANGED mm
       ELSE /\ mm' = ClassifyPages(mm, Pages(file))
            /\ http' = [http EXCEPT !.classified = @ + Pages(file),
                                    !.files = rest,
                                    !.pc = IF rest = <<>> THEN "idle" ELSE "read",
                                    !.status = IF rest = <<>> THEN "200" ELSE None]

classify_multiple_documents ==
    \/ \E token_ok \in BOOLEAN : \E files \in Uploads : HttpBegin(token_ok, files)
    \/ HttpFile

-----------------------------------------------------------------------------
(* Specification of the streaming handlers *)

NoCall == [n |-> 0, op |-> None, arg |-> <<>>, ret |-> None]
IdleBroadcast == [state |-> "idle", snapshot |-> <<>>, idx |-> 0, failed |-> {}, got |-> {}]
NotReturned == [returned |-> FALSE]
Returned(v, a) == [returned |-> TRUE, value |-> v, ocr_analysis |-> a]
\* no connector, no record anywhere, no insert request answered
NoErp == [connector |-> None, sink |-> "up", documents |-> <<>>, archive |-> <<>>,
          responses |-> <<>>]
NoFusion == [cls |-> None, confidence |-> 0, keywords |-> <<>>, ocr_text |-> <<None>>]

QuietRest ==
    /\ lifespanPc = "not_started" /\ waited = 0 /\ lastCall = NoCall
    /\ bc = IdleBroadcast
    /\ erp = NoErp
    /\ fin = NoFusion /\ fout = NotReturned

\* after import: the ModelManager is constructed (loaded or not) and the OCR
\* reader was built (SpecOcr covers the other outcomes of _init_ocr); no
\* connection has been accepted yet
Init ==
    /\ \E o \in LoadOutcomes : mm = ModelManager__init__(o)
    /\ ocr_nlp = OCRNLPPipeline__init__("ok")
    /\ active_connections = <<>>
    /\ wsPc = [c \in AllConns |-> "new"]
    /\ clientOpen = [c \in AllConns |-> TRUE]
    /\ image = [c \in AllConns |-> None]
    /\ job = [c \in AllConns |-> NoJob]
    /\ sent = [c \in AllConns |-> <<>>]
    /\ inbox = [c \in AllConns |-> <<>>]
    /\ sendResult = [c \in AllConns |-> NoSend]
    /\ http = NoHttp
    /\ outcomes = [c \in AllConns |-> <<>>]
    /\ QuietRest

Next ==
    \/ \E ws \in Conns : websocket_classify(ws) /\ UNCHANGED <<lifeVars, ocr_nlp, http, bc, erp, fusionVars>>
    \/ \E ws \in Conns : ClientClose(ws) /\ UNCHANGED <<lifeVars, ocr_nlp, http, bc, erp, fusionVars>>

Spec == Init /\ [][Next]_vars

\* The streaming handlers together with classify-multi requests.  The
\* clients of this specification send classify messages only, and the
\* classifier meets one mock draw and one sample.
CounterOutputs == {out \in StreamOutputs : out = Raises \/ argmax(out) = IndexOf(classes, "Invoice")}
CounterDraws == {d \in StreamDraws : d.class = "Invoice"}
CounterSamples == {q \in StreamSamples : Len(q) = MockSampleMin}
CounterReadings == StreamReadings

websocket_classify_messages(ws) ==
    \/ WsConnect(ws)
    \/ \E img \in ImageKinds : WsReceive(ws, "classify", img)
    \/ WsReceiveDisconnect(ws)
    \/ WsStart(ws)
    \/ WsLoaded(ws)
    \/ \E out \in CounterOutputs : \E draw \in CounterDraws : WsCnn(ws, out, draw)
    \/ \E sample \in CounterSamples : WsOcr(ws, sample)
    \/ \E reading \in CounterReadings : WsFusion(ws, reading)
    \/ WsResult(ws)
    \/ WsCount(ws)
    \/ WsError(ws)

NextCounter ==
    \/ \E ws \in Conns : websocket_classify_messages(ws)
                           /\ UNCHANGED <<lifeVars, ocr_nlp, http, bc, erp, fusionVars>>
    \/ \E ws \in Conns : ClientClose(ws) /\ UNCHANGED <<lifeVars, ocr_nlp, http, bc, erp, fusionVars>>
    \/ /\ classify_multiple_documents
       /\ UNCHANGED <<active_connections, clientOpen, ocr_nlp, wsPc, image, job, sent,
                      inbox, sendResult, outcomes, lifeVars, bc, erp, fusionVars>>

SpecCounter == Init /\ [][NextCounter]_vars

-----------------------------------------------------------------------------
(* Properties of the streaming protocol *)

Last(s) == s[Len(s)]
IsPrefix(s, t) == Len(s) <= Len(t) /\ \A i \in 1..Len(s) : s[i] = t[i]

\* the progress events of a request, in the order the handler emits them
ExpectedProgress ==
    IF is_model_loaded(mm)
    THEN <<Progress("start", 0), Progress("loaded", 20), Progress("cnn", 50),
           Progress("ocr", 70), Progress("fusion", 90)>>
    ELSE <<Progress("start", 0), Progress("loaded", 20), Progress("cnn", 50),
           Progress("fusion", 90)>>

\* the events of a log with the payload of a result dropped
Shape(log) == [i \in 1..Len(log) |->
                 IF log[i].type = "progress" THEN log[i] ELSE [type |-> log[i].type]]

FullSequence == ExpectedProgress \o <<[type |-> "result"]>>

\* the handler has finished the classify message it last received
Finished(ws) ==
    /\ wsPc[ws] \in {"recv", "closed"}
    /\ outcomes[ws] # <<>>
    /\ Last(outcomes[ws]).frame = "classify"

\* a proper prefix of the progress events followed by one error event
ErrorSequence(log) ==
    /\ log # <<>>
    /\ Last(log).type = "error"
    /\ Len(log) - 1 < Len(ExpectedProgress)
    /\ IsPrefix(SubSeq(Shape(log), 1, Len(log) - 1), ExpectedProgress)

NonDecreasing(log) ==
    \A i, j \in 1..Len(log) :
        (i < j /\ log[i].type = "progress" /\ log[j].type = "progress")
            => log[i].progress <= log[j].progress

Delivered(ws) == [i \in 1..Len(inbox[ws]) |-> inbox[ws][i].ev]

\* C1 as stated: every classify message yields exactly
\* start(0), loaded(20), cnn(50), [ocr(70)], fusion(90), result.
C1_Original ==
    \A ws \in Conns :
        /\ IsPrefix(Shape(sent[ws]), FullSequence)
        /\ Finished(ws) => Shape(sent[ws]) = FullSequence

\* C1 (amended): the events emitted for a classify message are, in order,
\* start(0), loaded(20), cnn(50), ocr(70) exactly when the real model is
\* loaded, fusion(90), result - or a proper prefix of the progress events
\* followed by one error event when the pipeline raises.  The percentages
\* are these constants and never decrease, and the peer receives the events
\* in the order they were emitted, whatever the other connections do.
C1_Sequence ==
    \A ws \in Conns :
        /\ IsPrefix(Shape(sent[ws]), FullSequence) \/ ErrorSequence(sent[ws])
        /\ Finished(ws) =>
              \/ Shape(sent[ws]) = FullSequence /\ Last(outcomes[ws]).end = "result"
              \/ ErrorSequence(sent[ws]) /\ Last(outcomes[ws]).end = "error"
        /\ NonDecreasing(sent[ws])
        /\ IsPrefix(Delivered(ws), sent[ws])

\* a request completed with the full sequence while another connection is
\* in the middle of its own pipeline
C1_Witness ==
    \E ws \in Conns : \E other \in Conns \ {ws} :
        /\ Finished(ws)
        /\ Shape(sent[ws]) = FullSequence
        /\ Delivered(ws) = sent[ws]
        /\ wsPc[other] \in {"cnn", "ocr", "fusion", "result", "count"}

\* C5: an error event is a terminus: it is the last event of its request and
\* the events before it are a prefix of start, loaded, cnn, [ocr], fusion.
C5_ErrorTerminal ==
    \A ws \in Conns : \A i \in 1..Len(sent[ws]) :
        sent[ws][i].type = "error" =>
            /\ i = Len(sent[ws])
            /\ IsPrefix(SubSeq(sent[ws], 1, i - 1), ExpectedProgress)

\* an error sent after start and loaded, the handler back at receive_json
C5_Witness ==
    \E ws \in Conns :
        /\ Shape(sent[ws]) = <<Progress("start", 0), Progress("loaded", 20), [type |-> "error"]>>
        /\ wsPc[ws] = "recv"

CountType(log, t) == Cardinality({i \in 1..Len(log) : log[i].type = t})

\* The step out of the except branch: when the pipeline of a classify
\* message raises, the handler sends exactly one error event, to the connection of that message only; the
\* connection stays registered and its handler returns to receive_json, and
\* a classify message received after it runs the normal sequence.
C6_ErrorStep ==
    \A ws \in Conns :
        (wsPc[ws] = "error" /\ wsPc'[ws] # "error") =>
            /\ sent'[ws] = Append(sent[ws], EvError(image[ws]))
            /\ CountType(sent'[ws], "error") = 1
            /\ \A other \in Conns \ {ws} :
                  inbox'[other] = inbox[other] /\ sent'[other] = sent[other]
            /\ \A i \in 1..Len(inbox'[ws]) : inbox'[ws][i].origin = ws
            /\ InList(active_connections, ws)
            /\ active_connections' = active_connections
            /\ wsPc'[ws] = "recv"

C6_AfterError ==
    \A ws \in Conns :
        /\ (wsPc[ws] \in PipelinePcs \cup {"recv"}) => InList(active_connections, ws)
        /\ (Finished(ws) /\ Len(outcomes[ws]) >= 2
              /\ outcomes[ws][Len(outcomes[ws]) - 1].end = "error"
              /\ Last(outcomes[ws]).image = "valid")
             => (Shape(sent[ws]) = FullSequence /\ Last(outcomes[ws]).end = "result")

\* C6: the step that handles a mid-pipeline exception sends one error event
\* to its own connection and leaves it registered and receiving, and the
\* classify message that follows an error ends with the normal sequence.
C6_MidPipelineError == []C6_AfterError /\ [][C6_ErrorStep]_vars

\* a connection whose first classify ended with an error (raised after
\* "loaded") and whose second one ended with a result
C6_Witness ==
    \E ws \in Conns :
        /\ Len(outcomes[ws]) = 2
        /\ outcomes[ws][1].end = "error" /\ outcomes[ws][1].image = "truncated"
        /\ outcomes[ws][2].end = "result"
        /\ Shape(sent[ws]) = FullSequence
        /\ InList(active_connections, ws)

\* a frame that is not JSON, JSON that is not a usable classify message
\* (not an object, no "classify" type), or a classify without a usable image
Malformed(o) == o.frame # "classify" \/ o.image = "undecodable"

\* C7: after a malformed client message the server has emitted an error
\* event on that connection, and the connection is still registered and
\* its handler waits for the next message (as long as the peer is there).
C7_MalformedGetsError ==
    \A ws \in Conns :
        (/\ outcomes[ws] # <<>>
         /\ Malformed(Last(outcomes[ws]))
         /\ wsPc[ws] \in {"recv", "closed"}
         /\ clientOpen[ws])
        => /\ sent[ws] # <<>> /\ Last(sent[ws]).type = "error"
           /\ wsPc[ws] = "recv"
           /\ InList(active_connections, ws)

-----------------------------------------------------------------------------
(* ConnectionManager.broadcast (main.py) and its specification *)

SeqSet(l) == {l[i] : i \in 1..Len(l)}

\* faulty variant: no try/except around the send: the exception of a failed send
\* leaves the loop
BroadcastAttempt_Abort(b) ==
    LET connection == b.snapshot[b.idx] IN
    IF SendFails(connection)
    THEN /\ bc' = [b EXCEPT !.failed = @ \cup {connection}, !.state = "done"]
         /\ UNCHANGED active_connections
    ELSE /\ bc' = [b EXCEPT !.got = @ \cup {connection},
                            !.idx = @ + 1,
                            !.state = IF b.idx = Len(b.snapshot) THEN "done" ELSE "running"]
         /\ UNCHANGED active_connections

\* faulty variant: the loop walks the registry itself instead of the copy taken
\* when the broadcast started
BroadcastAttempt_Live(b) ==
    IF b.idx > Len(active_connections)
    THEN bc' = [b EXCEPT !.state = "done"] /\ UNCHANGED active_connections
    ELSE LET connection == active_connections[b.idx] IN
         /\ active_connections' =
               IF SendFails(connection) THEN disconnect(active_connections, connection)
               ELSE active_connections
         /\ bc' = [b EXCEPT !.failed = IF SendFails(connection) THEN @ \cup {connection} ELSE @,
                            !.got = IF SendFails(connection) THEN @ ELSE @ \cup {connection},
                            !.idx = @ + 1,
                            !.state = IF b.idx >= Len(active_connections')
                                      THEN "done" ELSE "running"]

\* one iteration of the loop over the snapshot: send_json to the connection;
\* if it raises, disconnect that connection; then on to the next one
BroadcastAttempt(b) ==
    LET connection == b.snapshot[b.idx] IN
    /\ bc' = [b EXCEPT !.failed = IF SendFails(connection) THEN @ \cup {connection} ELSE @,
                       !.got = IF SendFails(connection) THEN @ ELSE @ \cup {connection},
                       !.idx = @ + 1,
                       !.state = IF b.idx = Len(b.snapshot) THEN "done" ELSE "running"]
    /\ active_connections' =
          IF SendFails(connection) THEN disconnect(active_connections, connection)
          ELSE active_connections

\* broadcast is called: the copy active_connections[:] is taken and the
\* first send attempted
BroadcastBegin ==
    /\ bc.state # "running"
    /\ LET b == [state |-> "running", snapshot |-> active_connections, idx |-> 1,
                 failed |-> {}, got |-> {}] IN
       IF active_connections = <<>>
       THEN bc' = [b EXCEPT !.state = "done"] /\ UNCHANGED active_connections
       ELSE BroadcastAttempt(b)
    /\ UNCHANGED <<mm, clientOpen, lifeVars, streamVars, erp, fusionVars>>

\* the loop resumes after the await of the previous send
BroadcastNext ==
    /\ bc.state = "running"
    /\ BroadcastAttempt(bc)
    /\ UNCHANGED <<mm, clientOpen, lifeVars, streamVars, erp, fusionVars>>

broadcast == BroadcastBegin \/ BroadcastNext

\* the handlers of the broadcast specification: their clients send no frame
NextBroadcast ==
    \/ broadcast
    \/ \E ws \in BConns : WsConnect(ws) /\ UNCHANGED <<lifeVars, ocr_nlp, http, bc, erp, fusionVars>>
    \/ \E ws \in BConns : ClientClose(ws) /\ UNCHANGED <<lifeVars, ocr_nlp, http, bc, erp, fusionVars>>
    \/ \E ws \in BConns : WsReceiveDisconnect(ws) /\ UNCHANGED <<lifeVars, ocr_nlp, http, bc, erp, fusionVars>>

SpecBroadcast == Init /\ [][NextBroadcast]_vars

Registered == SeqSet(active_connections)

\* C3: a broadcast over N registered connections in which exactly one
\* delivery failed (the peers of the others staying connected) ends with
\* exactly the N-1 others registered, each of them having received the
\* event - also those that come after the failing one in the list.
C3_BroadcastRobust ==
    LET snap == SeqSet(bc.snapshot) IN
    (/\ bc.state = "done"
     /\ Cardinality(bc.failed) = 1
     /\ \A c \in snap \ bc.failed : clientOpen[c])
    => /\ snap \cap Registered = snap \ bc.failed
       /\ Cardinality(snap \cap Registered) = Len(bc.snapshot) - 1
       /\ bc.got = snap \ bc.failed
       /\ \A i \in 1..Len(active_connections) : \A j \in 1..Len(active_connections) :
             active_connections[i] = active_connections[j] => i = j

\* three connections registered, delivery to the first one failed, the two
\* after it received the event and are the ones left in the registry
C3_Witness ==
    /\ bc.state = "done"
    /\ Len(bc.snapshot) = 3
    /\ bc.failed = {bc.snapshot[1]}
    /\ bc.got = {bc.snapshot[2], bc.snapshot[3]}
    /\ Registered = bc.got
    /\ Len(active_connections) = 2

-----------------------------------------------------------------------------
(* lifespan startup (main.py) and the specification of the model lifecycle *)

max_wait == 60
check_interval == 2

\* getattr on the ModelManager object: an attribute __init__ never set
\* raises AttributeError
HasAttr(name) == name \in ModelManagerAttrs

\* module import: model_manager = ModelManager(model_path=...), and then
\* ocr_nlp = OCRNLPPipeline()
ModuleImport(outcome, ocr) ==
    /\ ~mm.constructed
    /\ mm' = ModelManager__init__(outcome)
    /\ ocr_nlp' = OCRNLPPipeline__init__(ocr)
    /\ UNCHANGED <<lifeVars, active_connections, clientOpen, wsPc, image, job, sent,
                   inbox, sendResult, outcomes, http, bc, erp, fusionVars>>

\* lifespan, up to the polling loop: create_tables, start_loading, waited = 0
LifespanStart ==
    /\ mm.constructed
    /\ lifespanPc = "not_started"
    /\ mm' = start_loading(mm)
    /\ waited' = 0
    /\ lifespanPc' = "polling"
    /\ UNCHANGED <<lastCall, active_connections, clientOpen, streamVars, bc, erp, fusionVars>>

\* lifespan: one evaluation of the while condition and of the loop body.
\*   condition false: the loop ends, the final logging runs, the
\*     application is yielded to ("ready");
\*   body: the reads of model_manager._model_load_failed and .is_loading
\*     raise AttributeError when the object has no such attribute, and the
\*     exception leaves lifespan ("failed"); otherwise a break, or
\*     asyncio.sleep(check_interval) and waited += check_interval.
LifespanPoll(brk) ==
    /\ lifespanPc = "polling"
    /\ IF ~(~is_model_loaded(mm) /\ waited < max_wait)
       THEN /\ ~brk
            /\ lifespanPc' = "ready"
            /\ UNCHANGED waited
       ELSE IF ~HasAttr("_model_load_failed") \/ ~HasAttr("is_loading")
       THEN /\ ~brk
            /\ lifespanPc' = "failed"
            /\ UNCHANGED waited
       ELSE IF brk
       THEN /\ lifespanPc' = "ready"
            /\ UNCHANGED waited
       ELSE /\ waited' = waited + check_interval
            /\ UNCHANGED lifespanPc
    /\ UNCHANGED <<mm, lastCall, active_connections, clientOpen, streamVars, bc, erp, fusionVars>>

lifespan == LifespanStart \/ \E brk \in BOOLEAN : LifespanPoll(brk)

\* Calls made on the constructed ModelManager by the request handlers.  The
\* handlers are module-level functions: the model does not tie them to the
\* outcome of lifespan, which only the ASGI server looks at.
Called(op, arg, ret) ==
    lastCall' = [n |-> lastCall.n + 1, op |-> op, arg |-> arg, ret |-> ret]

CallStartLoading ==
    /\ mm.constructed /\ lastCall.n < MaxCalls
    /\ mm' = start_loading(mm)
    /\ Called("start_loading", <<>>, None)
    /\ UNCHANGED <<lifespanPc, waited, active_connections, clientOpen, streamVars, bc, erp, fusionVars>>

\* get_status: reads is_model_loaded(), get_load_progress(), total_predictions
CallStatus ==
    /\ mm.constructed /\ lastCall.n < MaxCalls
    /\ Called("get_status", <<>>, [model_loaded |-> is_model_loaded(mm),
                             load_progress |-> get_load_progress(mm),
                             total_predictions |-> mm.total_predictions,
                             mode |-> IF ~is_model_loaded(mm) THEN "simulation" ELSE "real"])
    /\ UNCHANGED <<mm, lifespanPc, waited, active_connections, clientOpen, streamVars, bc, erp, fusionVars>>

CallPredict(out, draw) ==
    /\ mm.constructed /\ lastCall.n < MaxCalls
    /\ Called("predict", out, predict(mm, out, draw))
    /\ UNCHANGED <<mm, lifespanPc, waited, active_connections, clientOpen, streamVars, bc, erp, fusionVars>>

\* one image of classify_multiple_documents: predict, then (if it returned)
\* the fusion and increment_predictions
CallClassify(out, draw) ==
    /\ mm.constructed /\ lastCall.n < MaxCalls
    /\ LET p == predict(mm, out, draw) IN
       /\ Called("classify", out, p)
       /\ mm' = IF p.raised THEN mm ELSE increment_predictions(mm)
    /\ UNCHANGED <<lifespanPc, waited, active_connections, clientOpen, streamVars, bc, erp, fusionVars>>

InitLifecycle ==
    /\ mm = Unconstructed
    /\ ocr_nlp = NoPipeline
    /\ active_connections = <<>>
    /\ wsPc = [c \in AllConns |-> "new"]
    /\ clientOpen = [c \in AllConns |-> TRUE]
    /\ image = [c \in AllConns |-> None]
    /\ job = [c \in AllConns |-> NoJob]
    /\ sent = [c \in AllConns |-> <<>>]
    /\ inbox = [c \in AllConns |-> <<>>]
    /\ sendResult = [c \in AllConns |-> NoSend]
    /\ http = NoHttp
    /\ outcomes = [c \in AllConns |-> <<>>]
    /\ QuietRest

\* the lifecycle specification follows the ModelManager: the OCR reader is
\* built at import (SpecOcr covers the other outcomes of _init_ocr)
LifecycleOcrInit == {"ok"}

NextLifecycle ==
    \/ \E o \in LoadOutcomes : \E ocr \in LifecycleOcrInit : ModuleImport(o, ocr)
    \/ lifespan
    \/ CallStartLoading
    \/ CallStatus
    \/ \E out \in RealOutputs : \E draw \in MockDraws : CallPredict(out, draw)
    \/ \E out \in RealOutputs : \E draw \in MockDraws : CallClassify(out, draw)

SpecLifecycle == InitLifecycle /\ [][NextLifecycle]_vars

-----------------------------------------------------------------------------
(* Properties of the model lifecycle *)

\* C8: predict never raises to its caller: whether the model was never
\* loaded, its load failed, or the loaded model's prediction raises, the
\* caller gets a prediction with a class, a confidence and one score per
\* class, which is the simulated one whenever the real one is not available.
C8_PredictInfallible ==
    lastCall.op \in {"predict", "classify"} =>
        /\ lastCall.ret.raised = FALSE
        /\ lastCall.ret.class \in ClassSet
        /\ lastCall.ret.confidence \in 0..Unit
        /\ DOMAIN lastCall.ret.all_scores = ClassSet
        /\ lastCall.ret.all_scores[lastCall.ret.class] = lastCall.ret.confidence
        /\ (~is_model_loaded(mm) \/ lastCall.arg = Raises) <=> lastCall.ret.source = "mock"

\* the model is loaded, its prediction raised, and predict returned the
\* simulated prediction
C8_Witness ==
    /\ is_model_loaded(mm)
    /\ lastCall.op = "predict"
    /\ lastCall.arg = Raises
    /\ lastCall.ret.source = "mock"
    /\ lastCall.ret.class \in ClassSet

\* The load is attempted once, by the constructor, and its outcome is
\* final: no later operation calls _load_model_now again or changes
\* _model_loaded, neither from false to true nor from true to false.
C9_Once ==
    /\ mm.load_attempts = (IF mm.constructed THEN 1 ELSE 0)
    /\ is_model_loaded(mm) <=> mm.model # None

C9_Final ==
    mm.constructed =>
        /\ mm'.load_attempts = mm.load_attempts
        /\ mm'.model_loaded = mm.model_loaded
        /\ mm'.model = mm.model

\* C9: one load attempt per process, and no step of a constructed
\* ModelManager changes the outcome of the load.
C9_LoadOnceAndFinal == []C9_Once /\ [][C9_Final]_vars

\* a process whose load failed, after lifespan called start_loading and
\* after a classification and a further start_loading call
C9_Witness ==
    /\ mm.constructed /\ ~is_model_loaded(mm)
    /\ lifespanPc # "not_started"
    /\ mm.total_predictions >= 1
    /\ lastCall.op = "start_loading"
    /\ mm.load_attempts = 1

\* C10: the readiness wait is bounded, and when the model is not loaded
\* lifespan still completes its startup.
C10_StartupCompletes ==
    /\ waited <= max_wait
    /\ (mm.constructed /\ ~is_model_loaded(mm)) => lifespanPc # "failed"

-----------------------------------------------------------------------------
(* CNN + OCR fusion (main.py) *)

\* CLASS_KEYWORDS, in the insertion order of the dict
CLASS_KEYWORDS == <<
    [class_name |-> "Invoice", class_keywords |-> <<
        <<"i", "n", "v", "o", "i", "c", "e">>,
        <<"b", "i", "l", "l">>,
        <<"f", "a", "c", "t", "u", "r", "e">>,
        <<"t", "o", "t", "a", "l">>,
        <<"a", "m", "o", "u", "n", "t">>,
        <<"m", "o", "n", "t", "a", "n", "t">>,
        <<"p", "a", "y", "m", "e", "n", "t">>,
        <<"t", "a", "x">>,
        <<"t", "v", "a">> >>],
    [class_name |-> "Drawing", class_keywords |-> <<
        <<"d", "r", "a", "w", "i", "n", "g">>,
        <<"d", "i", "a", "g", "r", "a", "m">>,
        <<"p", "l", "a", "n">>,
        <<"b", "l", "u", "e", "p", "r", "i", "n", "t">>,
        <<"t", "e", "c", "h", "n", "i", "c", "a", "l">>,
        <<"s", "c", "h", "e", "m", "a", "t", "i", "c">> >>],
    [class_name |-> "Report", class_keywords |-> <<
        <<"r", "e", "p", "o", "r", "t">>,
        <<"r", "a", "p", "p", "o", "r", "t">>,
        <<"a", "n", "a", "l", "y", "s", "i", "s">>,
        <<"s", "u", "m", "m", "a", "r", "y">>,
        <<"f", "i", "n", "d", "i", "n", "g", "s">>,
        <<"c", "o", "n", "c", "l", "u", "s", "i", "o", "n">> >>],
    [class_name |-> "Receipt", class_keywords |-> <<
        <<"r", "e", "c", "e", "i", "p", "t">>,
        <<"r", "e", "c_cedilla", "u">>,
        <<"t", "i", "c", "k", "e", "t">>,
        <<"p", "r", "o", "o", "f">>,
        <<"p", "u", "r", "c", "h", "a", "s", "e">>,
        <<"t", "r", "a", "n", "s", "a", "c", "t", "i", "o", "n">> >>] >>

\* the operator "in" on strings: a occurs in b as a substring
SubstringOf(a, b) ==
    \E k \in 0..(Len(b) - Len(a)) : \A i \in 1..Len(a) : b[k + i] = a[i]

\* number of indices i of a sequence that satisfy a test, as the nested
\* loops of the code count them
RECURSIVE CountMatches(_, _, _)
CountMatches(kws, class_kws, i) ==
    IF i > Len(kws) THEN 0
    ELSE Cardinality({j \in 1..Len(class_kws) :
                        SubstringOf(class_kws[j], kws[i]) \/ SubstringOf(kws[i], class_kws[j])})
         + CountMatches(kws, class_kws, i + 1)

\* score of one class, in units of 1/3600:
\*   (matches + 0.5 * class keywords found in the text) / len(class_keywords)
ClassScore(keywords_lower, ocr_text, ocr_text_lower, class_keywords) ==
    LET matches == CountMatches(keywords_lower, class_keywords, 1)
        inText == IF Truthy(ocr_text)
                  THEN Cardinality({j \in 1..Len(class_keywords) :
                                      SubstringOf(class_keywords[j], ocr_text_lower)})
                  ELSE 0
    IN ((2 * matches + inText) * Unit) \div (2 * Len(class_keywords))

\* analyze_ocr_for_class: max(class_scores, key=class_scores.get) gives the
\* first key, in the order of the dict, that holds the highest score
analyze_ocr_for_class(keywords, ocr_text) ==
    LET keywords_lower == [i \in 1..Len(keywords) |-> lower(keywords[i])] \o <<>>
        ocr_text_lower == IF Truthy(ocr_text) THEN lower(ocr_text) ELSE <<>>
        class_scores == [k \in 1..Len(CLASS_KEYWORDS) |->
                           ClassScore(keywords_lower, ocr_text, ocr_text_lower,
                                      CLASS_KEYWORDS[k].class_keywords)] \o <<>>
        best == CHOOSE k \in 1..Len(CLASS_KEYWORDS) :
                   /\ \A j \in 1..Len(CLASS_KEYWORDS) : class_scores[j] <= class_scores[k]
                   /\ \A j \in 1..(k - 1) : class_scores[j] < class_scores[k]
    IN [predicted_class |-> CLASS_KEYWORDS[best].class_name,
        confidence |-> class_scores[best],
        all_scores |-> class_scores]

Min(a, b) == IF a <= b THEN a ELSE b
Max(a, b) == IF a >= b THEN a ELSE b

\* faulty variant: a confident text signal overrides the class of the CNN
fusion_cnn_ocr_Override(cnn_prediction, keywords, ocr_text) ==
    LET cnn_class == cnn_prediction.class
        cnn_confidence == cnn_prediction.confidence
        ocr_analysis == analyze_ocr_for_class(keywords, ocr_text)
        ocr_class == ocr_analysis.predicted_class
        ocr_confidence == ocr_analysis.confidence
    IN IF ocr_confidence * 10 > Unit /\ cnn_class # ocr_class /\ ocr_confidence * 10 > 3 * Unit
       THEN [class |-> ocr_class, confidence |-> Max(cnn_confidence - Pct(3), Pct(60)),
             cnn_confidence |-> cnn_confidence, ocr_boost |-> 0 - Pct(3),
             fusion_applied |-> TRUE]
       ELSE [class |-> cnn_class, confidence |-> cnn_confidence,
             cnn_confidence |-> cnn_confidence, ocr_boost |-> 0,
             fusion_applied |-> ocr_confidence * 10 > Unit]

\* faulty variants of fusion_cnn_ocr share this body: the text signal counts
\* from the score low on, the boost is capped at boostCap, the penalised
\* confidence is kept above floor
fusion_variant(cnn_prediction, keywords, ocr_text, low, boostCap, floor) ==
    LET cnn_class == cnn_prediction.class
        cnn_confidence == cnn_prediction.confidence
        ocr_analysis == analyze_ocr_for_class(keywords, ocr_text)
        ocr_class == ocr_analysis.predicted_class
        ocr_confidence == ocr_analysis.confidence
        boost == Min(Pct(5) + (ocr_confidence * 3) \div 100, boostCap)
        penalty == Pct(3)
    IN IF ocr_confidence > low
       THEN IF cnn_class = ocr_class
            THEN [class |-> cnn_class,
                  confidence |-> Min(cnn_confidence + boost, Pct(99)),
                  cnn_confidence |-> cnn_confidence,
                  ocr_boost |-> boost,
                  fusion_applied |-> TRUE]
            ELSE IF ocr_confidence * 10 > 3 * Unit
            THEN [class |-> cnn_class,
                  confidence |-> Max(cnn_confidence - penalty, floor),
                  cnn_confidence |-> cnn_confidence,
                  ocr_boost |-> 0 - penalty,
                  fusion_applied |-> TRUE]
            ELSE [class |-> cnn_class,
                  confidence |-> cnn_confidence,
                  cnn_confidence |-> cnn_confidence,
                  ocr_boost |-> 0,
                  fusion_applied |-> TRUE]
       ELSE [class |-> cnn_class,
             confidence |-> cnn_confidence,
             cnn_confidence |-> cnn_confidence,
             ocr_boost |-> 0,
             fusion_applied |-> FALSE]

\* faulty variant: any text signal above zero counts ("if ocr_class and
\* ocr_confidence:")
fusion_cnn_ocr_AnySignal(cnn_prediction, keywords, ocr_text) ==
    fusion_variant(cnn_prediction, keywords, ocr_text, 0, Pct(8), Pct(60))

\* faulty variant: the boost is not capped at 0.08
fusion_cnn_ocr_NoBoostCap(cnn_prediction, keywords, ocr_text) ==
    fusion_variant(cnn_prediction, keywords, ocr_text, Pct(10), Pct(100), Pct(60))

\* faulty variant: the penalised confidence is not kept above 0.60
fusion_cnn_ocr_NoFloor(cnn_prediction, keywords, ocr_text) ==
    fusion_variant(cnn_prediction, keywords, ocr_text, Pct(10), Pct(8), 0)

\* faulty variant: every disagreement above 0.1 is penalised (the test on
\* 0.3 is missing)
fusion_cnn_ocr_AlwaysPenalty(cnn_prediction, keywords, ocr_text) ==
    LET cnn_class == cnn_prediction.class
        cnn_confidence == cnn_prediction.confidence
        ocr_analysis == analyze_ocr_for_class(keywords, ocr_text)
        ocr_class == ocr_analysis.predicted_class
        ocr_confidence == ocr_analysis.confidence
        boost == Min(Pct(5) + (ocr_confidence * 3) \div 100, Pct(8))
        penalty == Pct(3)
    IN IF ocr_class # None /\ ocr_confidence * 10 > Unit
       THEN IF cnn_class = ocr_class
            THEN [class |-> cnn_class,
                  confidence |-> Min(cnn_confidence + boost, Pct(99)),
                  cnn_confidence |-> cnn_confidence,
                  ocr_boost |-> boost,
                  fusion_applied |-> TRUE]
            ELSE [class |-> cnn_class,
                  confidence |-> Max(cnn_confidence - penalty, Pct(60)),
                  cnn_confidence |-> cnn_confidence,
                  ocr_boost |-> 0 - penalty,
                  fusion_applied |-> TRUE]
       ELSE [class |-> cnn_class,
             confidence |-> cnn_confidence,
             cnn_confidence |-> cnn_confidence,
             ocr_boost |-> 0,
             fusion_applied |-> FALSE]

\* fusion_cnn_ocr.  Thresholds 0.1 and 0.3, boost 0.05 + 0.03 * score capped
\* at 0.08, penalty 0.03, cap 0.99 and floor 0.60, all in units of 1/3600.
fusion_cnn_ocr(cnn_prediction, keywords, ocr_text) ==
    LET cnn_class == cnn_prediction.class
        cnn_confidence == cnn_prediction.confidence
        ocr_analysis == analyze_ocr_for_class(keywords, ocr_text)
        ocr_class == ocr_analysis.predicted_class
        ocr_confidence == ocr_analysis.confidence
        boost == Min(Pct(5) + (ocr_confidence * 3) \div 100, Pct(8))
        penalty == Pct(3)
    IN IF ocr_class # None /\ ocr_confidence * 10 > Unit
       THEN IF cnn_class = ocr_class
            THEN [class |-> cnn_class,
                  confidence |-> Min(cnn_confidence + boost, Pct(99)),
                  cnn_confidence |-> cnn_confidence,
                  ocr_boost |-> boost,
                  fusion_applied |-> TRUE]
            ELSE IF ocr_confidence * 10 > 3 * Unit
            THEN [class |-> cnn_class,
                  confidence |-> Max(cnn_confidence - penalty, Pct(60)),
                  cnn_confidence |-> cnn_confidence,
                  ocr_boost |-> 0 - penalty,
                  fusion_applied |-> TRUE]
            ELSE [class |-> cnn_class,
                  confidence |-> cnn_confidence,
                  cnn_confidence |-> cnn_confidence,
                  ocr_boost |-> 0,
                  fusion_applied |-> TRUE]
       ELSE [class |-> cnn_class,
             confidence |-> cnn_confidence,
             cnn_confidence |-> cnn_confidence,
             ocr_boost |-> 0,
             fusion_applied |-> FALSE]

-----------------------------------------------------------------------------
(* Specification of the fusion applied to bounded inputs *)

\* keywords handed in: exact class keywords, an upper-case one, a word that
\* contains a class keyword, a letter contained in many, a word matching
\* nothing, and the empty string
KeywordVocabulary == {
    <<"f", "a", "c", "t", "u", "r", "e">>,
    <<"T", "V", "A">>,
    <<"p", "l", "a", "n">>,
    <<"i", "n", "v", "o", "i", "c", "e", "s">>,
    <<"a">>,
    <<"x", "y", "z">>,
    <<>> }

\* OCR texts handed in (None when no OCR ran)
TextVocabulary == { NoText,
    <<>>,
    <<"T", "o", "t", "a", "l", " ", "t", "a", "x", " ", "i", "n", "v", "o", "i", "c", "e">>,
    <<"p", "l", "a", "n">>,
    <<"r", "a", "p", "p", "o", "r", "t", " ", "a", "n", "a", "l", "y", "s", "i", "s", " ", "s", "u", "m", "m", "a", "r", "y", " ", "f", "i", "n", "d", "i", "n", "g", "s", " ", "c", "o", "n", "c", "l", "u", "s", "i", "o", "n">>,
    <<"f", "a", "c", "t", "u", "r", "e", " ", "t", "o", "t", "a", "l", " ", "t", "v", "a", " ", "m", "o", "n", "t", "a", "n", "t", " ", "p", "a", "y", "m", "e", "n", "t">>,
    <<"m", "e", "r", "c", "i">> }

\* CNN confidences handed in, in percent
ConfidenceValues == {0, 58, 60, 80, 90, 97, 100}

RECURSIVE SeqsUpTo(_, _)
SeqsUpTo(S, n) ==
    IF n = 0 THEN {<<>>}
    ELSE LET shorter == SeqsUpTo(S, n - 1) IN
         shorter \cup {Append(q, x) : q \in {r \in shorter : Len(r) = n - 1}, x \in S}

FusionInputs ==
    [cls : ClassSet,
     confidence : {Pct(p) : p \in ConfidenceValues},
     keywords : SeqsUpTo(KeywordVocabulary, MaxKeywords),
     ocr_text : TextVocabulary]

InitFusion ==
    /\ mm = ModelManager__init__("ok")
    /\ ocr_nlp = OCRNLPPipeline__init__("ok")
    /\ active_connections = <<>>
    /\ wsPc = [c \in AllConns |-> "new"]
    /\ clientOpen = [c \in AllConns |-> TRUE]
    /\ image = [c \in AllConns |-> None]
    /\ job = [c \in AllConns |-> NoJob]
    /\ sent = [c \in AllConns |-> <<>>]
    /\ inbox = [c \in AllConns |-> <<>>]
    /\ sendResult = [c \in AllConns |-> NoSend]
    /\ http = NoHttp
    /\ outcomes = [c \in AllConns |-> <<>>]
    /\ lifespanPc = "not_started" /\ waited = 0 /\ lastCall = NoCall
    /\ bc = IdleBroadcast
    /\ erp = NoErp
    /\ fin \in FusionInputs
    /\ fout = NotReturned

\* the call fusion_cnn_ocr(cnn_prediction, keywords, ocr_text); what its
\* local ocr_analysis held is kept next to the value returned
Fuse ==
    /\ ~fout.returned
    /\ fout' = Returned(fusion_cnn_ocr([class |-> fin.cls, confidence |-> fin.confidence],
                                       fin.keywords, fin.ocr_text),
                        analyze_ocr_for_class(fin.keywords, fin.ocr_text))
    /\ UNCHANGED <<mm, lifeVars, active_connections, clientOpen, streamVars, bc, erp, fin>>

NextFusion == Fuse

SpecFusion == InitFusion /\ [][NextFusion]_vars

\* C2: the confidence returned by fusion_cnn_ocr lies in [0.60, 0.99].
C2_ConfidenceRange ==
    fout.returned => (Pct(60) <= fout.value.confidence /\ fout.value.confidence <= Pct(99))

\* C4: the class returned by fusion_cnn_ocr is the class of the CNN
\* prediction, whatever the keywords and the OCR text.
C4_ClassIsCnnClass ==
    fout.returned => fout.value.class = fin.cls

\* a confident text signal for another class (penalty applied), and the
\* class of the CNN kept
C4_Witness ==
    /\ fout.returned
    /\ fout.value.fusion_applied
    /\ fout.value.ocr_boost = 0 - Pct(3)
    /\ fout.ocr_analysis.predicted_class # fin.cls
    /\ fout.value.class = fin.cls

-----------------------------------------------------------------------------
(* A peer that goes away during its classification *)

\* the handler of ws takes a step
HandlerStep(ws) == wsPc'[ws] # wsPc[ws] \/ sent'[ws] # sent[ws]

\* the position that follows each position of the pipeline when nothing raises
\* out of a send
AfterSend(pc) ==
    CASE pc = "start"  -> {"loaded"}
      [] pc = "loaded" -> {"cnn", "error"}
      [] pc = "cnn"    -> {"ocr", "error"}
      [] pc = "ocr"    -> {"fusion", "result"}
      [] pc = "fusion" -> {"result"}
      [] pc = "result" -> {"count"}
      [] pc = "count"  -> {"recv"}
      [] pc = "error"  -> {"recv"}

\* the load state of the classifier
LoadState(m) == <<m.model, m.model_loaded, m.load_attempts>>

\* everything about the connections other than ws
Others(ws) == [c \in AllConns \ {ws} |->
                 <<InList(active_connections, c), wsPc[c], sent[c], inbox[c],
                   outcomes[c], clientOpen[c]>>]

\* the peer of ws goes away: nothing but its own link changes
C11_CloseStep ==
    \A ws \in Conns :
        (clientOpen[ws] /\ ~clientOpen'[ws]) =>
            /\ active_connections' = active_connections
            /\ inbox' = inbox /\ sent' = sent /\ wsPc' = wsPc
            /\ LoadState(mm') = LoadState(mm)

\* a step of the handler of a peer that is gone
C11_LaterStep ==
    \A ws \in Conns :
        (~clientOpen[ws] /\ HandlerStep(ws)) =>
            /\ inbox'[ws] = inbox[ws]
            /\ wsPc[ws] \in PipelinePcs => wsPc'[ws] \in AfterSend(wsPc[ws])
            /\ Others(ws)' = Others(ws)
            /\ LoadState(mm') = LoadState(mm)

\* C11: when a streaming client disconnects at any point of its
\* classification, every later send to it delivers nothing and raises
\* nothing (the pipeline goes on to its next position), no other connection
\* leaves the registry, the events of every other connection are untouched,
\* and the load state of the classifier is unchanged.
C11_DisconnectIsolated == [][C11_CloseStep /\ C11_LaterStep]_vars

\* a peer left in the middle of its classification, its handler went on to
\* the result, and the other connection, still registered, received all the
\* events of its own request
C11_Witness ==
    \E ws \in Conns : \E o \in Conns \ {ws} :
        /\ ~clientOpen[ws]
        /\ Shape(sent[ws]) = FullSequence
        /\ inbox[ws] # <<>> /\ Len(inbox[ws]) < Len(sent[ws])
        /\ InList(active_connections, o)
        /\ Shape(sent[o]) = FullSequence
        /\ Delivered(o) = sent[o]

-----------------------------------------------------------------------------
(* Broadcast under concurrent connects and disconnects *)

NoDuplicates(l) == \A i, j \in 1..Len(l) : l[i] = l[j] => i = j

\* the connections the broadcast in progress has attempted so far
Attempted == bc.got \cup bc.failed

C12_Registry ==
    /\ NoDuplicates(active_connections)
    /\ \A c \in BConns :
          /\ (wsPc[c] = "recv" /\ clientOpen[c]) => InList(active_connections, c)
          /\ wsPc[c] \in {"new", "closed"} => ~InList(active_connections, c)

C12_Attempts ==
    bc.state # "idle" =>
        /\ NoDuplicates(bc.snapshot)
        /\ bc.got \cap bc.failed = {}
        /\ Attempted = {bc.snapshot[i] : i \in 1..(bc.idx - 1)}
        /\ Cardinality(Attempted) = bc.idx - 1
        /\ bc.state = "done" => Attempted = SeqSet(bc.snapshot)

\* while a broadcast runs its snapshot stays what it was, whatever happens
\* to the registry; removing a connection that is no longer registered
\* changes nothing
C12_Step ==
    /\ bc.state = "running" => bc'.snapshot = bc.snapshot
    /\ bc.state # "running" /\ bc'.state # "idle" /\ bc' # bc
          => bc'.snapshot = active_connections
    /\ \A c \in BConns :
          (/\ ~InList(active_connections, c)
           /\ \/ wsPc[c] = "recv" /\ wsPc'[c] = "closed"
              \/ c \in bc'.failed \ bc.failed)
          => active_connections' = active_connections

\* C12: broadcast walks the copy of the registry taken when it starts.
\* Under any interleaving of connects and disconnects with a broadcast in
\* progress, each connection of the copy is attempted exactly once, the
\* broadcast runs to its end, and the registry holds every live connection
\* exactly once and no closed one; a disconnect of a connection already
\* removed changes nothing.
C12_BroadcastSnapshot == [](C12_Registry /\ C12_Attempts) /\ [][C12_Step]_vars

\* a broadcast over two connections has delivered to the first; meanwhile
\* the handler of the second has already unregistered it, and a third
\* connection has registered
C12_Witness ==
    /\ bc.state = "running"
    /\ Len(bc.snapshot) = 2 /\ bc.idx = 2
    /\ Cardinality(bc.got) = 1
    /\ wsPc[bc.snapshot[2]] = "closed"
    /\ \E c \in Registered : ~InList(bc.snapshot, c)

-----------------------------------------------------------------------------
(* What send_personal_message tells its caller *)

\* a send_personal_message call for ws returns in this step
SendStep(ws) == Len(sent'[ws]) = Len(sent[ws]) + 1

\* C13: when the delivery to the target connection fails,
\* send_personal_message reports the failure to its caller: what the caller
\* gets differs from what it gets after a delivered send.
C13_FailureReported ==
    [][\A ws \in Conns :
          (SendStep(ws) /\ SendFails(ws)) => sendResult'[ws] # None]_vars

\* C14: a failed send_personal_message leaves the registry as it was: the
\* target connection is not unregistered by the failure.
C14_FailedSendKeepsRegistry ==
    [][\A ws \in Conns :
          (SendStep(ws) /\ SendFails(ws)) =>
              /\ inbox' = inbox
              /\ active_connections' = active_connections
              /\ InList(active_connections', ws)]_vars

\* a send to a peer that is gone has returned, and the connection is still
\* in the registry
C14_Witness ==
    \E ws \in Conns :
        /\ ~clientOpen[ws]
        /\ Len(inbox[ws]) < Len(sent[ws])
        /\ sendResult[ws] = None
        /\ InList(active_connections, ws)

-----------------------------------------------------------------------------
(* Events reach only the connection of their request *)

\* what a peer received is, in order, part of what its own handler emitted
RECURSIVE IsSubsequence(_, _)
IsSubsequence(s, t) ==
    IF s = <<>> THEN TRUE
    ELSE IF t = <<>> THEN FALSE
    ELSE IF Head(s) = Head(t) THEN IsSubsequence(Tail(s), Tail(t))
    ELSE IsSubsequence(s, Tail(t))

C15_OwnEvents ==
    \A ws \in Conns :
        /\ \A i \in 1..Len(inbox[ws]) : inbox[ws][i].origin = ws
        /\ IsSubsequence(Delivered(ws), sent[ws])

C15_SendStep ==
    \A ws \in Conns :
        SendStep(ws) => \A o \in AllConns \ {ws} : inbox'[o] = inbox[o]

\* C15: with several streaming connections classifying concurrently, every
\* progress, result and error event of a classify request is delivered to
\* the connection that sent the request and to no other connection.
C15_EventsToOriginOnly == []C15_OwnEvents /\ [][C15_SendStep]_vars

\* two registered connections in the middle of their pipelines: one has
\* received its result, the other the first events of its own request
C15_Witness ==
    \E ws \in Conns : \E o \in Conns \ {ws} :
        /\ InList(active_connections, ws) /\ InList(active_connections, o)
        /\ wsPc[ws] = "count"
        /\ inbox[ws] # <<>>
        /\ Last(inbox[ws]).ev.type = "result"
        /\ wsPc[o] \in PipelinePcs
        /\ Len(inbox[o]) >= 2
        /\ job[ws] # job[o]

-----------------------------------------------------------------------------
(* The prediction counter *)

\* the classify messages of a connection that went through to their result
StreamResults(ws) == Cardinality({i \in 1..Len(outcomes[ws]) : outcomes[ws][i].end = "result"})

RECURSIVE SumOver(_, _)
SumOver(f, S) ==
    IF S = {} THEN 0
    ELSE LET c == CHOOSE x \in S : TRUE IN f[c] + SumOver(f, S \ {c})

Completed == SumOver([c \in Conns |-> StreamResults(c)], Conns) + http.classified

\* the counter is the number of classifications completed
C16_Counter == mm.total_predictions = Completed

C16_NoLostUpdate ==
    [][/\ mm'.total_predictions >= mm.total_predictions
       /\ \A ws \in Conns :
             (wsPc[ws] = "count" /\ wsPc'[ws] # "count")
                => mm'.total_predictions = mm.total_predictions + 1]_vars

\* C16: under any interleaving of streaming and classify-multi requests,
\* total_predictions is the number of classifications completed - one per
\* streamed result whose handler went on to the increment, one per
\* classified page or image - and every increment adds exactly one: no
\* update is lost.
C16_CounterAtomic == []C16_Counter /\ C16_NoLostUpdate

\* a streamed classification was counted while a classify-multi request of
\* two files was between its files, and the request then counted its pages
C16_Witness ==
    /\ http.status = "200" /\ http.classified = Pages(PdfFile) + Pages(ImageFile)
    /\ \E ws \in Conns : StreamResults(ws) = 1
    /\ mm.total_predictions = http.classified + 1

-----------------------------------------------------------------------------
(* Simulation mode and the ocr step *)

Steps(log) == [i \in 1..Len(log) |->
                 IF log[i].type = "progress" THEN log[i].step ELSE log[i].type]

\* the keywords are distinct entries of the mock table of the given class
FromMockTable(kws, cls) ==
    /\ cls \in DOMAIN mock_keywords
    /\ \A i \in 1..Len(kws) : InList(mock_keywords[cls], kws[i])
    /\ NoDuplicates(kws)

\* C17: while the real classifier is not loaded, a classify request never
\* emits the ocr event and never runs text extraction, and its keywords are
\* entries of the mock table of the predicted class; when the real
\* classifier is loaded, the ocr event is emitted right after cnn and
\* right before fusion, and no mock keyword is used.
C17_SimulationSkipsOcr ==
    \A ws \in Conns :
        LET steps == Steps(sent[ws]) IN
        IF is_model_loaded(mm)
        THEN /\ job[ws].kwsrc # "mock"
             /\ \A i \in 1..Len(steps) :
                   /\ steps[i] = "ocr" => (i > 1 /\ steps[i - 1] = "cnn")
                   /\ steps[i] = "fusion" => (i > 1 /\ steps[i - 1] = "ocr")
             /\ InList(steps, "fusion") => job[ws].kwsrc = "ocr"
        ELSE /\ ~InList(steps, "ocr")
             /\ job[ws].kwsrc # "ocr"
             /\ InList(steps, "fusion") =>
                   /\ job[ws].kwsrc = "mock"
                   /\ FromMockTable(job[ws].keywords, job[ws].class)
                   /\ Len(job[ws].keywords) \in MockSampleMin..MockSampleMax
                   /\ \E i \in 1..Len(steps) : steps[i] = "cnn" /\ steps[i + 1] = "fusion"

\* in simulation mode a request went through to its result with three
\* keywords of the table of its class, the ocr event never emitted
C17_Witness ==
    \E ws \in Conns :
        /\ ~is_model_loaded(mm)
        /\ Finished(ws) /\ Last(outcomes[ws]).end = "result"
        /\ Steps(sent[ws]) = <<"start", "loaded", "cnn", "fusion", "result">>
        /\ job[ws].class = "Report"
        /\ Len(job[ws].keywords) = MockSampleMin
        /\ Last(sent[ws]).data.keywords = job[ws].keywords

-----------------------------------------------------------------------------
(* The three cases of the fusion *)

\* what analyze_ocr_for_class made of the keywords and the text handed in
TextSignal == fout.ocr_analysis

Unchanged == [class |-> fin.cls, confidence |-> fin.confidence,
              cnn_confidence |-> fin.confidence, ocr_boost |-> 0,
              fusion_applied |-> FALSE]

\* C18: when the best text score is at most 0.1 - in particular without any
\* keyword and without OCR text - fusion_cnn_ocr returns the CNN prediction
\* as it is: same class, same confidence, ocr_boost 0, fusion_applied false.
C18_NoSignalUnchanged ==
    fout.returned =>
        /\ TextSignal.confidence * 10 <= Unit => fout.value = Unchanged
        /\ (fin.keywords = <<>> /\ ~Truthy(fin.ocr_text)) => fout.value = Unchanged

\* a text that names one keyword of the class of the CNN: score 1/12, and
\* the prediction is returned as it is
C18_Witness ==
    /\ fout.returned
    /\ TextSignal.confidence > 0 /\ TextSignal.confidence * 10 <= Unit
    /\ TextSignal.predicted_class = fin.cls
    /\ fout.value = Unchanged

\* C19: when the text score exceeds 0.1 and the text-predicted class is the
\* class of the CNN, fusion_applied is true, ocr_boost is
\* min(0.05 + 0.03 * score, 0.08) and the confidence is
\* min(cnn confidence + ocr_boost, 0.99).
C19_Agreement ==
    (/\ fout.returned
     /\ TextSignal.confidence * 10 > Unit
     /\ TextSignal.predicted_class = fin.cls)
    => /\ fout.value.fusion_applied
       /\ fout.value.ocr_boost * 100 =
             Min(5 * Unit + 3 * TextSignal.confidence, 8 * Unit)
       /\ fout.value.confidence = Min(fin.confidence + fout.value.ocr_boost, Pct(99))
       /\ fout.value.class = fin.cls

\* the example of the claim: CNN confidence 0.80, score 0.5, boost 0.065,
\* confidence 0.865
C19_Witness ==
    /\ fout.returned
    /\ fin.confidence = Pct(80)
    /\ TextSignal.predicted_class = fin.cls
    /\ TextSignal.confidence * 2 = Unit
    /\ fout.value.ocr_boost * 1000 = 65 * Unit
    /\ fout.value.confidence * 1000 = 865 * Unit

\* C20: when the text-predicted class differs from the class of the CNN and
\* the text score exceeds 0.3, fusion_applied is true, ocr_boost is -0.03 and
\* the confidence is max(cnn confidence - 0.03, 0.60).
C20_StrongDisagreement ==
    (/\ fout.returned
     /\ TextSignal.predicted_class # fin.cls
     /\ TextSignal.confidence * 10 > 3 * Unit)
    => /\ fout.value.fusion_applied
       /\ fout.value.ocr_boost * 100 = 0 - 3 * Unit
       /\ fout.value.confidence * 100 = Max(fin.confidence * 100 - 3 * Unit, 60 * Unit)
       /\ fout.value.class = fin.cls

\* CNN confidence 0.90 for Report, score 7/18 for Invoice: confidence 0.87
C20_Witness ==
    /\ fout.returned
    /\ fin.cls = "Report" /\ fin.confidence = Pct(90)
    /\ TextSignal.predicted_class = "Invoice"
    /\ TextSignal.confidence * 18 = 7 * Unit
    /\ fout.value.ocr_boost = 0 - Pct(3)
    /\ fout.value.confidence = Pct(87)

-----------------------------------------------------------------------------
(* Specification of the streaming handlers with every outcome of the OCR engine *)

\* after import: the ModelManager is constructed (loaded or not) and so is
\* the OCRNLPPipeline (with or without a reader)
InitOcr ==
    /\ \E o \in LoadOutcomes : mm = ModelManager__init__(o)
    /\ \E o \in OcrInitOutcomes : ocr_nlp = OCRNLPPipeline__init__(o)
    /\ active_connections = <<>>
    /\ wsPc = [c \in AllConns |-> "new"]
    /\ clientOpen = [c \in AllConns |-> TRUE]
    /\ image = [c \in AllConns |-> None]
    /\ job = [c \in AllConns |-> NoJob]
    /\ sent = [c \in AllConns |-> <<>>]
    /\ inbox = [c \in AllConns |-> <<>>]
    /\ sendResult = [c \in AllConns |-> NoSend]
    /\ http = NoHttp
    /\ outcomes = [c \in AllConns |-> <<>>]
    /\ QuietRest

\* the handler of a connection whose frames are classify messages
websocket_classify_readings(ws) ==
    \/ WsConnect(ws)
    \/ \E img \in ImageKinds : WsReceive(ws, "classify", img)
    \/ WsReceiveDisconnect(ws)
    \/ WsStart(ws)
    \/ WsLoaded(ws)
    \/ \E out \in CounterOutputs : \E draw \in CounterDraws : WsCnn(ws, out, draw)
    \/ \E sample \in CounterSamples : WsOcr(ws, sample)
    \/ \E reading \in OcrReadings : WsFusion(ws, reading)
    \/ WsResult(ws)
    \/ WsCount(ws)
    \/ WsError(ws)

\* one connection is served: the requests of a connection are handled one
\* after the other, and extract_text has no state shared between requests
OcrConns == {"ws1"}

NextOcr ==
    \/ \E ws \in OcrConns : websocket_classify_readings(ws)
                              /\ UNCHANGED <<lifeVars, ocr_nlp, http, bc, erp, fusionVars>>
    \/ \E ws \in OcrConns : ClientClose(ws)
                              /\ UNCHANGED <<lifeVars, ocr_nlp, http, bc, erp, fusionVars>>

SpecOcr == InitOcr /\ [][NextOcr]_vars

\* C21: extract_text never raises: when the OCR engine is unavailable or a
\* step of the extraction throws, it returns the zero-value result (text '',
\* confidence 0.0, detected_blocks 0) with an error diagnostic, and the
\* classification that called it goes on to the fusion event and to a result.
C21_Failed(ws) ==
    /\ job[ws].kwsrc = "ocr"
    /\ ocr_nlp.ocr_reader = None \/ job[ws].ocr_result.error # None

C21_ZeroValue ==
    \A ws \in OcrConns :
        C21_Failed(ws) =>
            /\ job[ws].ocr_result.text = <<>>
            /\ job[ws].ocr_result.confidence = 0
            /\ job[ws].ocr_result.detected_blocks = 0
            /\ job[ws].ocr_result.error # None
            /\ job[ws].ocr_text = <<>>
            /\ job[ws].keywords = <<>>

C21_Proceeds ==
    \A ws \in OcrConns :
        /\ (wsPc[ws] = "fusion" /\ wsPc'[ws] # "fusion") =>
              /\ wsPc'[ws] = "result"
              /\ job'[ws].kwsrc = "ocr"
              /\ sent'[ws] = Append(sent[ws], EvFusion)
        /\ (wsPc[ws] = "result" /\ wsPc'[ws] # "result") =>
              /\ wsPc'[ws] = "count"
              /\ sent'[ws] = Append(sent[ws], EvResult(job[ws]))

C21_ExtractTextNeverRaises == []C21_ZeroValue /\ [][C21_Proceeds]_vars

C21_Witness ==
    \E ws \in OcrConns :
        /\ wsPc[ws] = "count"
        /\ ocr_nlp.ocr_reader # None
        /\ job[ws].ocr_result.error = "readtext"
        /\ sent[ws] # <<>>
        /\ sent[ws][Len(sent[ws])] = EvResult(job[ws])

-----------------------------------------------------------------------------
(* Specification of extract_keywords: the function applied to bounded inputs *)

\* the largest top_k asked for
MaxTopK == 5

\* the example of the documentation of the claim
ExampleText ==
    <<"L", "a", " ", "f", "a", "c", "t", "u", "r", "e", " ", "t", "o", "t", "a", "l", "e", " ", "e", "s", "t", " ", "d", "e", " ", "1", "5", "0", "0", " ", "e", "u", "r", "o", "s", ",", " ", "f", "a", "c", "t", "u", "r", "e", " ", "n", "u", "m", "e", "r", "o", " ", "4", "2">>

\* texts: empty, white space only, None, the example, equal counts, stop
\* words only, punctuation and capitals, accented letters and a character
\* outside the kept set, more distinct words than top_k, short words
KeywordTexts == {
    <<>>,
    <<" ", " ", "newline", "tab", " ">>,
    NoText,
    ExampleText,
    <<"p", "l", "a", "n", " ", "p", "l", "a", "n", " ", "d", "e", "v", "i", "s", " ", "d", "e", "v", "i", "s">>,
    <<"d", "e", "v", "i", "s", " ", "p", "l", "a", "n", " ", "p", "l", "a", "n", " ", "d", "e", "v", "i", "s", " ", "t", "o", "t", "a", "l">>,
    <<"l", "e", " ", "l", "a", " ", "p", "o", "u", "r", " ", "d", "a", "n", "s", " ", "a", "v", "e", "c">>,
    <<"P", "o", "u", "r", " ", "c", "e", "t", "t", "e", " ", "T", "V", "A", ":", " ", "e_circ", "t", "r", "e">>,
    <<"M", "o", "n", "t", "a", "n", "t", "-", "t", "o", "t", "a", "l", ":", " ", "m", "o", "n", "t", "a", "n", "t", ",", " ", "T", "O", "T", "A", "L", ";", " ", "n", "°", "1", "2", " ", "t", "o", "t", "a", "l">>,
    <<"r", "e", "c_cedilla", "u", " ", "r", "e", "c_cedilla", "u", " ", "p", "a", "y", "e_acute", " ", "oe_ligature", "u", "v", "r", "e">>,
    <<"a", "l", "p", "h", "a", " ", "b", "r", "a", "v", "o", " ", "c", "h", "a", "r", "l", "i", "e", " ", "d", "e", "l", "t", "a", " ", "e", "c", "h", "o", "1", " ", "f", "o", "x", "t", "r", "o", "t", " ", "g", "o", "l", "f", " ", "h", "o", "t", "e", "l", " ", "b", "r", "a", "v", "o">>,
    <<"a", "b", "c", " ", "a", "b", "c", "d", " ", "a", "b", "c", " ", "a", "b", "c">> }

KeywordInputs == [text : KeywordTexts, top_k : 0..MaxTopK]

InitKeywords ==
    /\ mm = ModelManager__init__("ok")
    /\ ocr_nlp = OCRNLPPipeline__init__("ok")
    /\ active_connections = <<>>
    /\ wsPc = [c \in AllConns |-> "new"]
    /\ clientOpen = [c \in AllConns |-> TRUE]
    /\ image = [c \in AllConns |-> None]
    /\ job = [c \in AllConns |-> NoJob]
    /\ sent = [c \in AllConns |-> <<>>]
    /\ inbox = [c \in AllConns |-> <<>>]
    /\ sendResult = [c \in AllConns |-> NoSend]
    /\ http = NoHttp
    /\ outcomes = [c \in AllConns |-> <<>>]
    /\ lifespanPc = "not_started" /\ waited = 0 /\ lastCall = NoCall
    /\ bc = IdleBroadcast
    /\ erp = NoErp
    /\ fin \in KeywordInputs
    /\ fout = NotReturned

\* the call ocr_nlp.extract_keywords(text, top_k)
ExtractKeywords ==
    /\ ~fout.returned
    /\ fout' = [returned |-> TRUE, value |-> extract_keywords(fin.text, fin.top_k)]
    /\ UNCHANGED <<mm, lifeVars, active_connections, clientOpen, streamVars, bc, erp, fin>>

NextKeywords == ExtractKeywords

SpecKeywords == InitKeywords /\ [][NextKeywords]_vars

\* the tokens of a text: its words once lower-cased and cut at every
\* character that is not a letter
Tokens(text) == IF Truthy(text) THEN split(clean(lower(text))) ELSE <<>>

Eligible(w) == w \notin stop_words /\ Len(w) > 3

FirstIndex(ws, w) == CHOOSE i \in 1..Len(ws) : ws[i] = w /\ \A j \in 1..(i - 1) : ws[j] # w

\* v ranks before w: it is more frequent, or as frequent and met first
RanksBefore(ws, v, w) ==
    \/ Count(ws, v) > Count(ws, w)
    \/ Count(ws, v) = Count(ws, w) /\ FirstIndex(ws, v) < FirstIndex(ws, w)

\* C22: for every text and every top_k, extract_keywords returns at most
\* top_k distinct tokens, none a stop-word or of length <= 3, ordered by
\* frequency descending with ties broken by first occurrence in the text (the
\* best-ranked ones); an empty or white-space-only text gives the empty list;
\* the example sentence gives "facture" first.
C22_ExtractKeywords ==
    fout.returned =>
        LET r == fout.value
            ws == Tokens(fin.text)
        IN /\ Len(r) <= fin.top_k
           /\ NoDuplicates(r)
           /\ \A i \in 1..Len(r) : InList(ws, r[i]) /\ Eligible(r[i])
           /\ \A i, j \in 1..Len(r) : i < j => RanksBefore(ws, r[i], r[j])
           /\ \A k \in 1..Len(ws) :
                 (Eligible(ws[k]) /\ ~InList(r, ws[k])) =>
                     /\ Len(r) = fin.top_k
                     /\ \A i \in 1..Len(r) : RanksBefore(ws, r[i], ws[k])
           /\ (~Truthy(fin.text) \/ IsBlank(fin.text)) => r = <<>>
           /\ (fin.text = ExampleText /\ fin.top_k >= 1) => r[1] = <<"f", "a", "c", "t", "u", "r", "e">>

\* two words as frequent as each other are returned, the first met first,
\* and the less frequent third word is left out by top_k
C22_Witness ==
    /\ fout.returned
    /\ fin.text = <<"d", "e", "v", "i", "s", " ", "p", "l", "a", "n", " ", "p", "l", "a", "n", " ", "d", "e", "v", "i", "s", " ", "t", "o", "t", "a", "l">>
    /\ fin.top_k = 2
    /\ fout.value = <<<<"d", "e", "v", "i", "s">>, <<"p", "l", "a", "n">>>>

-----------------------------------------------------------------------------
(* Properties of the sessions of a connection *)

\* the positions of the terminal events (result, error) in a log of events
Terminals(log) == {i \in 1..Len(log) : log[i].type \in {"result", "error"}}

\* the handler of ws is between the receipt of a classify message and its
\* terminal event
InPipeline(ws) ==
    wsPc[ws] \in {"start", "loaded", "cnn", "ocr", "fusion", "result", "error"}

\* the handling of the last frame of ws was a classification, finished
Classified(ws) ==
    \/ wsPc[ws] = "count"
    \/ /\ wsPc[ws] \in {"recv", "closed"}
       /\ outcomes[ws] # <<>>
       /\ Last(outcomes[ws]).frame = "classify"

\* the terminal events emitted on ws since it was accepted: one for each
\* frame whose handling ended with a result or an error, and the result just
\* sent when the counter is about to be incremented
TerminalEvents(ws) ==
    Cardinality({i \in 1..Len(outcomes[ws]) : outcomes[ws][i].end \in {"result", "error"}})
    + (IF wsPc[ws] = "count" THEN 1 ELSE 0)

\* C23 as stated: a connection receives exactly one terminal event over its
\* lifetime, whatever frames arrive on it.
C23_OnePerConnection ==
    \A ws \in Conns : wsPc[ws] = "closed" => TerminalEvents(ws) = 1

\* C23: each classify message handled on a streaming connection gets exactly
\* one terminal event, a result or an error, and it is the last event of
\* that request; a connection gets as many terminal events as classify
\* messages it had handled to their end (none, one or several).
C23_OnePerRequest ==
    \A ws \in Conns :
        /\ InPipeline(ws) => Terminals(sent[ws]) = {}
        /\ Classified(ws) => Terminals(sent[ws]) = {Len(sent[ws])}
        /\ TerminalEvents(ws) =
              Cardinality({i \in 1..Len(outcomes[ws]) : outcomes[ws][i].frame = "classify"})
              + (IF wsPc[ws] = "count" THEN 1 ELSE 0)

\* one connection has had two classify messages handled, each to its
\* terminal event
C23_Witness ==
    \E ws \in Conns :
        /\ wsPc[ws] = "closed"
        /\ TerminalEvents(ws) = MaxMessages
        /\ Terminals(sent[ws]) = {Len(sent[ws])}

-----------------------------------------------------------------------------
(* Properties of the simulated prediction *)

\* the last call was a prediction and the simulation produced it
Simulated ==
    /\ lastCall.op \in {"predict", "classify"}
    /\ lastCall.ret.source = "mock"

\* C24: every simulated prediction has one score for each of the four
\* classes, the scores sum to 1, the score of the selected class is the
\* confidence returned, and that confidence lies within the confidence range
\* configured for the selected class.
C24_MockScores ==
    Simulated =>
        LET p == lastCall.ret IN
        /\ DOMAIN p.all_scores = ClassSet
        /\ Len(classes) = Cardinality(ClassSet)
        /\ p.all_scores[classes[1]] + p.all_scores[classes[2]]
              + p.all_scores[classes[3]] + p.all_scores[classes[4]] = Unit
        /\ \A cls \in ClassSet : p.all_scores[cls] >= 0
        /\ p.all_scores[p.class] = p.confidence
        /\ Pct(confidence_range[p.class][1]) <= p.confidence
        /\ p.confidence <= Pct(confidence_range[p.class][2])

\* a simulated prediction of Receipt, at the top of its range, made as the
\* fallback of a loaded model whose prediction raised
C24_Witness ==
    /\ Simulated
    /\ is_model_loaded(mm)
    /\ lastCall.ret.class = "Receipt"
    /\ lastCall.ret.confidence = Pct(confidence_range["Receipt"][2])
    /\ lastCall.ret.all_scores["Drawing"] > lastCall.ret.all_scores["Invoice"]

-----------------------------------------------------------------------------
(* insert_document (main.py): POST /api/v1/erpnext/insert, and the ERPNextConnector *)

\* the requests of the insert specification
MaxInserts == 3

\* What the set-up of the connector at import can meet: the credentials are
\* not set, test_connection fails (the connector is dropped), or it succeeds
ConnectOutcomes == {"no_credentials", "test_fails", "ok"}

\* erpnext_connector after the module-level set-up
erpnext_connector_setup(outcome) ==
    IF outcome = "ok" THEN "ERPNextConnector" ELSE None

\* What ERPNext answers to the POST of a reachable sink: the document is
\* created, the request is rejected (a status other than 200 and 201), or
\* the answer carries no name
SinkAnswers == {"created", "rejected", "no_name"}

NoName == <<None>>
DocName(n) == <<"AI_Document", n>>

\* ERPNextConnector.create_ai_document: the name of the document created,
\* or None when the post raises, is refused, or gives no name
create_ai_document(sink, documents, answer) ==
    IF sink = "down" THEN [name |-> NoName, documents |-> documents]
    ELSE IF answer = "created"
    THEN [name |-> DocName(Len(documents) + 1),
          documents |-> Append(documents, DocName(Len(documents) + 1))]
    ELSE IF answer = "no_name"
    THEN [name |-> NoName, documents |-> Append(documents, NoName)]
    ELSE [name |-> NoName, documents |-> documents]

\* the answer to an insert request, with what the request met
Response(st, token_ok, name) ==
    [status |-> st, token_ok |-> token_ok, connector |-> erp.connector,
     sink |-> erp.sink, inserted_id |-> name]

\* insert_document: verify_token (401), 503 without a connector, else
\* create_ai_document and 200 with the name, or 500 when no name came back
insert_document(token_ok, answer) ==
    /\ Len(erp.responses) < MaxInserts
    /\ IF ~token_ok
       THEN erp' = [erp EXCEPT !.responses = Append(@, Response("401", token_ok, NoName))]
       ELSE IF erp.connector = None
       THEN erp' = [erp EXCEPT !.responses = Append(@, Response("503", token_ok, NoName))]
       ELSE LET r == create_ai_document(erp.sink, erp.documents, answer) IN
            erp' = [erp EXCEPT !.documents = r.documents,
                               !.responses = Append(@, Response(IF r.name # NoName THEN "200"
                                                                ELSE "500",
                                                                token_ok, r.name))]
    /\ UNCHANGED <<mm, lifeVars, active_connections, clientOpen, streamVars, bc, fusionVars>>

\* ERPNext stops answering, or answers again
SinkFails ==
    /\ erp.sink = "up"
    /\ erp' = [erp EXCEPT !.sink = "down"]
    /\ UNCHANGED <<mm, lifeVars, active_connections, clientOpen, streamVars, bc, fusionVars>>

SinkRecovers ==
    /\ erp.sink = "down"
    /\ erp' = [erp EXCEPT !.sink = "up"]
    /\ UNCHANGED <<mm, lifeVars, active_connections, clientOpen, streamVars, bc, fusionVars>>

\* after import: the connector is set up if the credentials are set and
\* ERPNext answered the connection test
InitInsert ==
    /\ mm = ModelManager__init__("ok")
    /\ ocr_nlp = OCRNLPPipeline__init__("ok")
    /\ active_connections = <<>>
    /\ wsPc = [c \in AllConns |-> "new"]
    /\ clientOpen = [c \in AllConns |-> TRUE]
    /\ image = [c \in AllConns |-> None]
    /\ job = [c \in AllConns |-> NoJob]
    /\ sent = [c \in AllConns |-> <<>>]
    /\ inbox = [c \in AllConns |-> <<>>]
    /\ sendResult = [c \in AllConns |-> NoSend]
    /\ http = NoHttp
    /\ outcomes = [c \in AllConns |-> <<>>]
    /\ lifespanPc = "not_started" /\ waited = 0 /\ lastCall = NoCall
    /\ bc = IdleBroadcast
    /\ \E o \in ConnectOutcomes : \E s \in {"up", "down"} :
          /\ o = "ok" => s = "up"
          /\ erp = [NoErp EXCEPT !.connector = erpnext_connector_setup(o), !.sink = s]
    /\ fin = NoFusion /\ fout = NotReturned

NextInsert ==
    \/ \E token_ok \in BOOLEAN : \E answer \in SinkAnswers : insert_document(token_ok, answer)
    \/ SinkFails
    \/ SinkRecovers

SpecInsert == InitInsert /\ [][NextInsert]_vars

\* the request was authenticated and the sink could not be reached: no
\* connector had been established, or ERPNext was not answering
SinkUnreachable(r) == r.token_ok /\ (r.connector = None \/ r.sink = "down")

\* C25: whenever the record sink is unreachable, whether no connector was
\* established at startup or the sink fails at insertion time, an insert
\* request fails with the service-unavailable failure, distinct from the
\* other failures, and no record is written to the local database.
C25_ServiceUnavailable ==
    /\ erp.archive = <<>>
    /\ \A i \in 1..Len(erp.responses) :
          LET r == erp.responses[i] IN
          /\ SinkUnreachable(r) => r.status = "503"
          /\ (r.token_ok /\ ~SinkUnreachable(r)) => r.status # "503"

-----------------------------------------------------------------------------
(* Properties of the text-predicted class and of the reported boost *)

\* the keyword-overlap score of a class, in what analyze_ocr_for_class computed
ScoreOf(cls) ==
    LET k == CHOOSE k \in 1..Len(CLASS_KEYWORDS) : CLASS_KEYWORDS[k].class_name = cls
    IN TextSignal.all_scores[k]

\* C26: the text-predicted class is the class with the highest
\* keyword-overlap score, and when several classes tie (the all-zero tie
\* included) the winner is the first of them in the order of the classifier's
\* class list.
C26_TieBreak ==
    fout.returned =>
        \A cls \in ClassSet :
            /\ ScoreOf(cls) <= ScoreOf(TextSignal.predicted_class)
            /\ ScoreOf(cls) = ScoreOf(TextSignal.predicted_class) =>
                  IndexOf(classes, TextSignal.predicted_class) <= IndexOf(classes, cls)

\* C27: weak disagreement: when the text-predicted class differs from the
\* class of the CNN and its score is in (0.1, 0.3], fusion_cnn_ocr applies
\* no adjustment (the confidence is the CNN confidence, ocr_boost is 0) but
\* fusion_applied is true.
C27_WeakDisagreement ==
    (/\ fout.returned
     /\ TextSignal.predicted_class # fin.cls
     /\ TextSignal.confidence * 10 > Unit
     /\ TextSignal.confidence * 10 <= 3 * Unit)
    => fout.value = [Unchanged EXCEPT !.fusion_applied = TRUE]

\* CNN confidence 0.90 for Drawing, a text that names three keywords of
\* Invoice (score 1/6): the confidence stays 0.90, fusion_applied is true
C27_Witness ==
    /\ fout.returned
    /\ fin.cls = "Drawing" /\ fin.confidence = Pct(90)
    /\ TextSignal.predicted_class = "Invoice"
    /\ TextSignal.confidence * 6 = Unit
    /\ fout.value.confidence = Pct(90)
    /\ fout.value.ocr_boost = 0
    /\ fout.value.fusion_applied

\* C28: the reported boost is the adjustment applied: for every output of
\* fusion_cnn_ocr, confidence = cnn_confidence + ocr_boost, also when the
\* 0.99 cap or the 0.60 floor takes effect.
C28_BoostIsAdjustment ==
    fout.returned =>
        fout.value.confidence = fout.value.cnn_confidence + fout.value.ocr_boost

-----------------------------------------------------------------------------
(* Specification of the streaming handlers whose tasks keep being scheduled *)

\* the steps the task of a connection takes by itself: all but the receipt
\* of a frame, which waits for the peer
websocket_classify_task(ws) ==
    \/ WsConnect(ws)
    \/ WsReceiveDisconnect(ws)
    \/ WsStart(ws)
    \/ WsLoaded(ws)
    \/ \E out \in CounterOutputs : \E draw \in CounterDraws : WsCnn(ws, out, draw)
    \/ \E sample \in CounterSamples : WsOcr(ws, sample)
    \/ \E reading \in CounterReadings : WsFusion(ws, reading)
    \/ WsResult(ws)
    \/ WsCount(ws)
    \/ WsError(ws)

\* the client that sends classify messages; the other one only connects and
\* goes away
FairSenders == {"ws1"}

NextFair ==
    \/ \E ws \in Conns : websocket_classify_task(ws)
                           /\ UNCHANGED <<lifeVars, ocr_nlp, http, bc, erp, fusionVars>>
    \/ \E ws \in FairSenders : \E img \in ImageKinds :
          WsReceive(ws, "classify", img)
          /\ UNCHANGED <<lifeVars, ocr_nlp, http, bc, erp, fusionVars>>
    \/ \E ws \in Conns : ClientClose(ws)
                           /\ UNCHANGED <<lifeVars, ocr_nlp, http, bc, erp, fusionVars>>

\* the event loop runs every task that is ready: a handler that can take a
\* step by itself eventually takes one
Fairness ==
    \A ws \in Conns :
        WF_vars(websocket_classify_task(ws)
                /\ UNCHANGED <<lifeVars, ocr_nlp, http, bc, erp, fusionVars>>)

SpecFair == Init /\ [][NextFair]_vars /\ Fairness

InRegistry(ws) == InList(active_connections, ws)

\* C29: after a streaming client disconnects, its connection is eventually
\* removed from active_connections (its handler task being scheduled), also
\* when it disconnects in the middle of a classification whose sends are
\* swallowed; and once removed it is never in the registry again.
C29_EventuallyRemoved ==
    /\ \A ws \in Conns : (InRegistry(ws) /\ ~clientOpen[ws]) ~> ~InRegistry(ws)
    /\ [](\A ws \in Conns : wsPc[ws] = "closed" => ~InRegistry(ws))
    /\ [][\A ws \in Conns :
            /\ (InRegistry(ws) /\ ~InRegistry(ws)') => wsPc'[ws] = "closed"
            /\ wsPc[ws] = "closed" => wsPc'[ws] = "closed"]_vars

\* a client went away in the middle of a classification: events were sent
\* that it never received, the pipeline ran to its end, and the connection
\* was removed
C29_Witness ==
    \E ws \in Conns :
        /\ wsPc[ws] = "closed"
        /\ ~InRegistry(ws)
        /\ outcomes[ws] # <<>> /\ Last(outcomes[ws]).end = "result"
        /\ Len(inbox[ws]) < Len(sent[ws])


-----------------------------------------------------------------------------
(* Text extraction and the source of the prediction *)

\* C30: text extraction is only combined with predictions of the real
\* classifier: whenever the prediction of a classify request was produced
\* by the simulation (the fallback taken when the real prediction raises
\* included), no ocr event is emitted and the keywords come from the mock
\* table of the predicted class.
C30_OcrOnlyWithRealPrediction ==
    \A ws \in Conns :
        LET steps == Steps(sent[ws]) IN
        (InList(steps, "cnn") /\ job[ws].cnn = "mock") =>
            /\ ~InList(steps, "ocr")
            /\ InList(steps, "fusion") =>
                  /\ job[ws].kwsrc = "mock"
                  /\ FromMockTable(job[ws].keywords, job[ws].class)

====
